---- MODULE Spec2Model ----
(***************************************************************************)
(* A model of the mpb progress-bar library: the bar actors (bar.go), the   *)
(* render orchestrator (progress.go) and the tasks that call them.         *)
(*                                                                         *)
(* Channels are modelled by their state: "nil" | "open" | "closed" for the *)
(* gates that carry no value (quit, done, cancel, flushed), and a          *)
(* rendezvous between a sender's position and the receiver's position for  *)
(* the unbuffered inboxes (Bar.ops, Progress.ops).  An operation closure   *)
(* runs in the receiving actor; the part of it that touches only the       *)
(* actor's private state is applied in the step that receives it.          *)
(*                                                                         *)
(* int64 is modelled as a two's-complement integer of IntBits bits:        *)
(* additions wrap exactly as Go's do, on a narrower word.                  *)
(***************************************************************************)
EXTENDS Integers, Sequences, FiniteSets, TLC

\* ------------------------------------------------------------------ bounds
NumBars == 2          \* bar handles that AddBar can hand out
NumClients == 2       \* producer tasks
NumStoppers == 1      \* tasks that call Stop
MaxCalls == 3         \* bar operations started by the producers, in all
MaxFrames == 2        \* ticks delivered by the ticker
IntBits == 3          \* width of the modelled int64

BarIds == 1..NumBars
Clients == 1..NumClients
Stoppers == 1..NumStoppers
\* tasks that may call Stop at the same time, in the runs about repeated Stop
NumStopCalls == 2
StopCallers == Stoppers \cup (1..NumStopCalls)

MaxInt64 == 2^(IntBits - 1) - 1
MinInt64 == -(2^(IntBits - 1))

\* the totals and ids given to AddBar, the amounts given to Incr
Totals == {0, 2}
Ids == {0}
IncrArgs == {-1, 0, 1, MaxInt64}

\* ------------------------------------------------------------------- state
VARIABLES
    s,            \* s[b]: the state owned by bar b's actor (bar.go:51-76)
    bpc,          \* bpc[b]: position of bar b's actor
    quit,         \* quit[b]: Bar.quit  "nil" | "open" | "closed"
    done,         \* done[b]: Bar.done  "nil" | "open" | "closed"
    cacheState,   \* cacheState[b]: Bar.cacheState, NoState until written
    bcancel,      \* bcancel[b]: the actor's cancel channel is non-nil
    gate,         \* gate[b]: the flushed gate captured by b's render op
    quitCloses,   \* quitCloses[b]: number of close(b.quit) executed
    cl,           \* cl[c]: producer c's pending call [pc, bar, arg]
    lastRead,     \* the last value a read operation returned
    ncalls,       \* bar operations started so far
    called,       \* called[b]: mathematical sum of n over Incr(n >= 0) calls on b
    dropped,      \* dropped[b]: an Incr on b returned through the quit gate
    opc,          \* position of the orchestrator loop
    oidx,         \* index of the orchestrator's current range loop
    obar,         \* the bar RemoveBar is completing
    cbars,        \* conf.bars
    ccancel,      \* conf.cancel is non-nil
    cancelCh,     \* the external cancel signal: "nil" | "open" | "closed"
    tickerStopped,\* conf.ticker.Stop() was called
    tickPending,  \* a tick is buffered in conf.ticker.C
    nticks,       \* ticks delivered so far
    pquit,        \* Progress.quit "open" | "closed"
    pdone,        \* Progress.done "open" | "closed"
    pquitCloses,  \* number of close(p.quit) executed
    wg,           \* counter of Progress.wg
    skip,         \* fanIn's skip counter for the current frame
    rpc,          \* rpc[b]: position of bar b's render task in this frame
    snap,         \* snap[b]: the last snapshot a render task of b got
    written,      \* rows written to the terminal writer in this frame
    spc,          \* spc[t]: position of Stop caller t
    panicked,     \* "" or the fault that ended the process
    ws,           \* one width-sync column of a frame (progress.go:320-355)
    deco,         \* deco[b]: bar b's decorator in that column
    est,          \* a bar's state with its rolling window, and its ETA texts
    spin,         \* the spinner of an indeterminate bar and the glyph it drew
    fb,           \* a call of fillBar and the cells it returned
    fmtv,         \* a value handed to the magnitude formatter and its text
    win           \* the rolling window of the ETA estimator, with its clock

barVars == <<s, bpc, quit, done, cacheState, bcancel, gate, quitCloses>>
clientVars == <<cl, lastRead, ncalls, called, dropped>>
orchVars == <<opc, oidx, obar, cbars, ccancel, tickerStopped, pquit, pdone,
              pquitCloses, wg>>
frameVars == <<skip, rpc, snap, written>>
envVars == <<cancelCh, tickPending, nticks>>
pureVars == <<spin, fb, fmtv, win>>
drawVars == <<ws, deco, est, pureVars>>
vars == <<barVars, clientVars, orchVars, frameVars, envVars, spc, panicked, drawVars>>

NoState == [id |-> 0, total |-> 0, current |-> 0, started |-> FALSE,
            completed |-> FALSE, aborted |-> FALSE, valid |-> FALSE]
Idle == [pc |-> "idle", bar |-> 0, kind |-> "", arg |-> 0]
NoRead == [bar |-> 0, kind |-> "", val |-> 0]
\* no frame is being drawn: no column, no decorator at work, no texts
NoSync == [pc |-> "none", Listen |-> <<>>, Result |-> <<>>, widths |-> <<>>,
           sent |-> 0, closed |-> FALSE, timeout |-> FALSE, extra |-> 0]
NoDeco == [pc |-> "none", sync |-> FALSE, width |-> 0, cell |-> 0]
NoEst == [pc |-> "none"]
\* nothing is being formatted or filled
NoCall == [pc |-> "none"]
NoPure == spin = NoCall /\ fb = NoCall /\ fmtv = NoCall /\ win = NoCall

\* --------------------------------------------------------- pure operators
\* Go's int64 addition: the sum wraps around at the word width
AddInt64(a, b) == ((a + b - MinInt64) % (2^IntBits)) + MinInt64

\* newBar's initial state (bar.go:80-83) after the id option
newState(id, total) ==
    [id |-> id, total |-> total, current |-> 0, started |-> FALSE,
     completed |-> FALSE, aborted |-> FALSE, valid |-> TRUE]

\* the closure Incr sends (bar.go:147-161), for n >= 0
IncrOp(st, n) ==
    LET st1 == IF st.current = 0 /\ ~st.started
               THEN [st EXCEPT !.started = TRUE] ELSE st
        sum == AddInt64(st1.current, n)
    IN  IF st1.total > 0 /\ sum >= st1.total
        THEN [st1 EXCEPT !.current = st1.total, !.completed = TRUE]
        ELSE [st1 EXCEPT !.current = sum]

\* the field a read operation replies with (bar.go:203-231)
ReadKinds == {"ID", "Current", "Total"}
ReadField(st, kind) ==
    CASE kind = "ID" -> st.id
      [] kind = "Current" -> st.current
      [] kind = "Total" -> st.total

\* the select of Bar.Complete (bar.go:249-251): TRUE when it goes on to close
CompleteWillClose(b) == quit[b] # "closed"

\* close(b.quit) (bar.go:252): closing a closed or nil channel faults
CloseQuitFault(b) ==
    IF quit[b] = "closed" THEN "close of closed channel"
    ELSE IF quit[b] = "nil" THEN "close of nil channel" ELSE ""

Alive == panicked = ""

\* the caller holds b: AddBar has returned it
HasHandle(b) ==
    /\ bpc[b] # "unborn"
    /\ ~(opc = "addbar_wg" /\ cbars # <<>> /\ cbars[Len(cbars)] = b)

\* ---------------------------------------------------------- the producers
\* Bar.Incr up to its select (bar.go:142-146); Increment is Incr(1) and
\* Update is Incr(0) (bar.go:132-139)
CallIncr(c, b, n) ==
    /\ Alive /\ cl[c].pc = "idle" /\ ncalls < MaxCalls /\ HasHandle(b)
    /\ ncalls' = ncalls + 1
    /\ IF n < 0
       THEN UNCHANGED <<cl, called>>
       ELSE /\ cl' = [cl EXCEPT ![c] = [pc |-> "Incr", bar |-> b, kind |-> "", arg |-> n]]
            /\ called' = [called EXCEPT ![b] = @ + n]
    /\ UNCHANGED <<barVars, lastRead, dropped, orchVars, frameVars, envVars, spc, panicked>>
    /\ UNCHANGED drawVars

\* case b.ops <- func: the actor receives the closure and applies it
IncrSend(c) ==
    /\ Alive /\ cl[c].pc = "Incr"
    /\ bpc[cl[c].bar] = "loop"
    /\ s' = [s EXCEPT ![cl[c].bar] = IncrOp(@, cl[c].arg)]
    /\ cl' = [cl EXCEPT ![c] = Idle]
    /\ UNCHANGED <<bpc, quit, done, cacheState, bcancel, gate, quitCloses>>
    /\ UNCHANGED <<lastRead, ncalls, called, dropped, orchVars, frameVars, envVars, spc, panicked>>
    /\ UNCHANGED drawVars

\* case <-b.quit: return (bar.go:162-163)
IncrQuit(c) ==
    /\ Alive /\ cl[c].pc = "Incr"
    /\ quit[cl[c].bar] = "closed"
    /\ dropped' = [dropped EXCEPT ![cl[c].bar] = TRUE]
    /\ cl' = [cl EXCEPT ![c] = Idle]
    /\ UNCHANGED <<barVars, lastRead, ncalls, called, orchVars, frameVars, envVars, spc, panicked>>
    /\ UNCHANGED drawVars

\* ID, Current, Total up to their select (bar.go:203-231)
CallRead(c, b, kind) ==
    /\ Alive /\ cl[c].pc = "idle" /\ ncalls < MaxCalls /\ HasHandle(b)
    /\ ncalls' = ncalls + 1
    /\ cl' = [cl EXCEPT ![c] = [pc |-> "Read", bar |-> b, kind |-> kind, arg |-> 0]]
    /\ UNCHANGED <<barVars, lastRead, called, dropped, orchVars, frameVars, envVars, spc, panicked>>
    /\ UNCHANGED drawVars

\* case b.ops <- func: the actor replies with the field of its live state
ReadSend(c) ==
    /\ Alive /\ cl[c].pc = "Read"
    /\ bpc[cl[c].bar] = "loop"
    /\ lastRead' = [bar |-> cl[c].bar, kind |-> cl[c].kind,
                    val |-> ReadField(s[cl[c].bar], cl[c].kind)]
    /\ cl' = [cl EXCEPT ![c] = Idle]
    /\ UNCHANGED <<barVars, ncalls, called, dropped, orchVars, frameVars, envVars, spc, panicked>>
    /\ UNCHANGED drawVars

\* case <-b.done: the reply comes from b.cacheState
ReadDone(c) ==
    /\ Alive /\ cl[c].pc = "Read"
    /\ done[cl[c].bar] = "closed"
    /\ lastRead' = [bar |-> cl[c].bar, kind |-> cl[c].kind,
                    val |-> ReadField(cacheState[cl[c].bar], cl[c].kind)]
    /\ cl' = [cl EXCEPT ![c] = Idle]
    /\ UNCHANGED <<barVars, ncalls, called, dropped, orchVars, frameVars, envVars, spc, panicked>>
    /\ UNCHANGED drawVars

\* Bar.Complete, the select (bar.go:248-251)
CallComplete(c, b) ==
    /\ Alive /\ cl[c].pc = "idle" /\ ncalls < MaxCalls /\ HasHandle(b)
    /\ ncalls' = ncalls + 1
    /\ cl' = [cl EXCEPT ![c] = IF CompleteWillClose(b)
                                THEN [pc |-> "Complete", bar |-> b, kind |-> "", arg |-> 0]
                                ELSE Idle]
    /\ UNCHANGED <<barVars, lastRead, called, dropped, orchVars, frameVars, envVars, spc, panicked>>
    /\ UNCHANGED drawVars

\* Bar.Complete, close(b.quit) (bar.go:252)
CompleteClose(c) ==
    /\ Alive /\ cl[c].pc = "Complete"
    /\ cl' = [cl EXCEPT ![c] = Idle]
    /\ IF CloseQuitFault(cl[c].bar) = ""
       THEN /\ quit' = [quit EXCEPT ![cl[c].bar] = "closed"]
            /\ quitCloses' = [quitCloses EXCEPT ![cl[c].bar] = @ + 1]
            /\ UNCHANGED panicked
       ELSE /\ panicked' = CloseQuitFault(cl[c].bar)
            /\ UNCHANGED <<quit, quitCloses>>
    /\ UNCHANGED <<s, bpc, done, cacheState, bcancel, gate>>
    /\ UNCHANGED <<lastRead, ncalls, called, dropped, orchVars, frameVars, envVars, spc>>
    /\ UNCHANGED drawVars

\* Bar.InProgress (bar.go:235-242): 1 for true, 0 for false
InProgress(c, b) ==
    /\ Alive /\ cl[c].pc = "idle" /\ ncalls < MaxCalls /\ HasHandle(b)
    /\ ncalls' = ncalls + 1
    /\ lastRead' = [bar |-> b, kind |-> "InProgress",
                    val |-> IF quit[b] = "closed" THEN 0 ELSE 1]
    /\ UNCHANGED <<barVars, cl, called, dropped, orchVars, frameVars, envVars, spc, panicked>>
    /\ UNCHANGED drawVars

\* ----------------------------------------------------------- the bar actor
\* where the actor goes after Bar.Complete's select: on to close(b.quit), or
\* back to its loop when the gate is already closed
AfterCompleteSelect(b) == IF CompleteWillClose(b) THEN "closing" ELSE "loop"

\* Bar.server, case <-b.quit (bar.go:280-282)
BarQuit(b) ==
    /\ Alive /\ bpc[b] = "loop" /\ quit[b] = "closed"
    /\ s' = [s EXCEPT ![b].completed = TRUE]
    /\ bpc' = [bpc EXCEPT ![b] = "defer_cache"]
    /\ UNCHANGED <<quit, done, cacheState, bcancel, gate, quitCloses>>
    /\ UNCHANGED <<clientVars, orchVars, frameVars, envVars, spc, panicked>>
    /\ UNCHANGED drawVars

\* Bar.server, case <-cancel (bar.go:283-286), up to Complete's select
BarCancel(b) ==
    /\ Alive /\ bpc[b] = "loop" /\ bcancel[b] /\ cancelCh = "closed"
    /\ s' = [s EXCEPT ![b].aborted = TRUE]
    /\ bcancel' = [bcancel EXCEPT ![b] = FALSE]
    /\ bpc' = [bpc EXCEPT ![b] = AfterCompleteSelect(b)]
    /\ UNCHANGED <<quit, done, cacheState, gate, quitCloses>>
    /\ UNCHANGED <<clientVars, orchVars, frameVars, envVars, spc, panicked>>
    /\ UNCHANGED drawVars

\* the actor's close(b.quit) inside Bar.Complete (bar.go:252)
BarClose(b) ==
    /\ Alive /\ bpc[b] = "closing"
    /\ bpc' = [bpc EXCEPT ![b] = "loop"]
    /\ IF CloseQuitFault(b) = ""
       THEN /\ quit' = [quit EXCEPT ![b] = "closed"]
            /\ quitCloses' = [quitCloses EXCEPT ![b] = @ + 1]
            /\ UNCHANGED panicked
       ELSE /\ panicked' = CloseQuitFault(b)
            /\ UNCHANGED <<quit, quitCloses>>
    /\ UNCHANGED <<s, done, cacheState, bcancel, gate>>
    /\ UNCHANGED <<clientVars, orchVars, frameVars, envVars, spc>>
    /\ UNCHANGED drawVars

\* a render closure that goes on to Complete without waiting for the flush
BarFlushedEarly(b) ==
    /\ Alive /\ bpc[b] = "flushwait"
    /\ bpc' = [bpc EXCEPT ![b] = AfterCompleteSelect(b)]
    /\ gate' = [gate EXCEPT ![b] = "none"]
    /\ UNCHANGED <<s, quit, done, cacheState, bcancel, quitCloses>>
    /\ UNCHANGED <<clientVars, orchVars, frameVars, envVars, spc, panicked>>
    /\ UNCHANGED drawVars

\* the render closure after <-flushed (bar.go:308-309), up to Complete's select
BarFlushed(b) ==
    /\ Alive /\ bpc[b] = "flushwait" /\ gate[b] = "closed"
    /\ bpc' = [bpc EXCEPT ![b] = AfterCompleteSelect(b)]
    /\ gate' = [gate EXCEPT ![b] = "none"]
    /\ UNCHANGED <<s, quit, done, cacheState, bcancel, quitCloses>>
    /\ UNCHANGED <<clientVars, orchVars, frameVars, envVars, spc, panicked>>
    /\ UNCHANGED drawVars

\* a deferred function that closes the done gate without writing the cache
BarDeferCacheSkipped(b) ==
    /\ Alive /\ bpc[b] = "defer_cache"
    /\ bpc' = [bpc EXCEPT ![b] = "defer_done"]
    /\ UNCHANGED <<s, quit, done, cacheState, bcancel, gate, quitCloses>>
    /\ UNCHANGED <<clientVars, orchVars, frameVars, envVars, spc, panicked>>
    /\ UNCHANGED drawVars

\* the deferred function of Bar.server (bar.go:270-274), statement by statement
BarDeferCache(b) ==
    /\ Alive /\ bpc[b] = "defer_cache"
    /\ cacheState' = [cacheState EXCEPT ![b] = s[b]]
    /\ bpc' = [bpc EXCEPT ![b] = "defer_done"]
    /\ UNCHANGED <<s, quit, done, bcancel, gate, quitCloses>>
    /\ UNCHANGED <<clientVars, orchVars, frameVars, envVars, spc, panicked>>
    /\ UNCHANGED drawVars

BarDeferDone(b) ==
    /\ Alive /\ bpc[b] = "defer_done"
    /\ done' = [done EXCEPT ![b] = "closed"]
    /\ bpc' = [bpc EXCEPT ![b] = "defer_wg"]
    /\ UNCHANGED <<s, quit, cacheState, bcancel, gate, quitCloses>>
    /\ UNCHANGED <<clientVars, orchVars, frameVars, envVars, spc, panicked>>
    /\ UNCHANGED drawVars

\* wg.Done(): a counter below zero faults
BarDeferWg(b) ==
    /\ Alive /\ bpc[b] = "defer_wg"
    /\ bpc' = [bpc EXCEPT ![b] = "exited"]
    /\ wg' = wg - 1
    /\ panicked' = IF wg - 1 < 0 THEN "negative WaitGroup counter" ELSE panicked
    /\ UNCHANGED <<s, quit, done, cacheState, bcancel, gate, quitCloses>>
    /\ UNCHANGED <<opc, oidx, obar, cbars, ccancel, tickerStopped, pquit, pdone, pquitCloses>>
    /\ UNCHANGED <<clientVars, frameVars, envVars, spc>>
    /\ UNCHANGED drawVars

\* -------------------------------------------------------- the orchestrator
\* what ID(), Total() and Current() give the orchestrator for bar b
View(b) == IF done[b] = "closed" THEN cacheState[b] ELSE s[b]

\* a read of b can be served: by the actor at its select, or from the cache
Readable(b) == bpc[b] = "loop" \/ done[b] = "closed"

\* a comparison by id alone
LessByID(a, b) == View(a).id < View(b).id

\* the comparison of defaultSort (progress.go:85-98)
Less(a, b) ==
    IF View(a).id # View(b).id THEN View(a).id < View(b).id
    ELSE IF View(a).total # View(a).current THEN FALSE
    ELSE IF View(b).total = View(b).current THEN FALSE
    ELSE TRUE

\* stable insertion of x, which came after every element of sorted
RECURSIVE InsertStable(_, _)
InsertStable(sorted, x) ==
    IF sorted = <<>> THEN <<x>>
    ELSE IF Less(x, sorted[Len(sorted)])
         THEN Append(InsertStable(SubSeq(sorted, 1, Len(sorted) - 1), x), sorted[Len(sorted)])
         ELSE Append(sorted, x)

\* sort.SliceStable with Less (progress.go:84-99)
RECURSIVE defaultSort(_)
defaultSort(bs) ==
    IF bs = <<>> THEN <<>>
    ELSE InsertStable(defaultSort(SubSeq(bs, 1, Len(bs) - 1)), bs[Len(bs)])

\* the rows of the terminal, cwriter.GetTermSize's th (progress.go:269-273)
TermRows == {4, 24}

\* skip as the tick computes it (progress.go:281-285)
SkipOf(numBars, th) == IF numBars > th - 3 THEN numBars - (th - 3) ELSE 0

RemoveAt(seq, i) == SubSeq(seq, 1, i - 1) \o SubSeq(seq, i + 1, Len(seq))
IndexOf(seq, x) == CHOOSE i \in 1..Len(seq) : seq[i] = x
InSeq(seq, x) == \E i \in 1..Len(seq) : seq[i] = x

Unborn == {b \in BarIds : bpc[b] = "unborn"}
FreshBar == CHOOSE b \in Unborn : \A o \in Unborn : b <= o

\* the ticker delivers a tick into conf.ticker.C
Tick ==
    /\ Alive /\ ~tickerStopped /\ ~tickPending /\ nticks < MaxFrames
    /\ tickPending' = TRUE
    /\ nticks' = nticks + 1
    /\ UNCHANGED <<barVars, clientVars, orchVars, frameVars, cancelCh, spc, panicked>>
    /\ UNCHANGED drawVars

\* the external cancel signal is closed
CloseCancel ==
    /\ Alive /\ cancelCh = "open"
    /\ cancelCh' = "closed"
    /\ UNCHANGED <<barVars, clientVars, orchVars, frameVars, tickPending, nticks, spc, panicked>>
    /\ UNCHANGED drawVars

\* case <-conf.ticker.C with no bars (progress.go:254-258)
OrchTickEmpty ==
    /\ Alive /\ opc = "loop" /\ tickPending /\ cbars = <<>>
    /\ tickPending' = FALSE
    /\ UNCHANGED <<barVars, clientVars, orchVars, frameVars, cancelCh, nticks, spc, panicked>>
    /\ UNCHANGED drawVars

\* case <-conf.ticker.C up to the range over the bars (progress.go:254-292)
OrchTick(th) ==
    /\ Alive /\ opc = "loop" /\ tickPending /\ cbars # <<>>
    /\ \A i \in 1..Len(cbars) : Readable(cbars[i])
    /\ tickPending' = FALSE
    /\ cbars' = defaultSort(cbars)
    /\ skip' = SkipOf(Len(cbars), th)
    /\ opc' = "frame"
    /\ oidx' = 1
    /\ written' = <<>>
    /\ UNCHANGED <<obar, ccancel, tickerStopped, pquit, pdone, pquitCloses, wg>>
    /\ UNCHANGED <<barVars, clientVars, rpc, snap, cancelCh, nticks, spc, panicked>>
    /\ UNCHANGED drawVars

\* where the range over the bars goes after bar number oidx
AfterFrameBar == IF oidx = Len(cbars) THEN "fanin" ELSE "frame"
NextIdx == IF oidx = Len(cbars) THEN 1 ELSE oidx + 1

\* b.Update() accepted by the actor, then b.render spawns the render task
\* (progress.go:293-296)
FrameUpdateSend ==
    /\ Alive /\ opc = "frame"
    /\ bpc[cbars[oidx]] = "loop"
    /\ s' = [s EXCEPT ![cbars[oidx]] = IncrOp(@, 0)]
    /\ rpc' = [rpc EXCEPT ![cbars[oidx]] = "send"]
    /\ opc' = AfterFrameBar
    /\ oidx' = NextIdx
    /\ UNCHANGED <<bpc, quit, done, cacheState, bcancel, gate, quitCloses>>
    /\ UNCHANGED <<obar, cbars, ccancel, tickerStopped, pquit, pdone, pquitCloses, wg>>
    /\ UNCHANGED <<clientVars, skip, snap, written, envVars, spc, panicked>>
    /\ UNCHANGED drawVars

\* b.Update() returns through the quit gate, then b.render
FrameUpdateQuit ==
    /\ Alive /\ opc = "frame"
    /\ quit[cbars[oidx]] = "closed"
    /\ rpc' = [rpc EXCEPT ![cbars[oidx]] = "send"]
    /\ opc' = AfterFrameBar
    /\ oidx' = NextIdx
    /\ UNCHANGED <<obar, cbars, ccancel, tickerStopped, pquit, pdone, pquitCloses, wg>>
    /\ UNCHANGED <<barVars, clientVars, skip, snap, written, envVars, spc, panicked>>
    /\ UNCHANGED drawVars

\* the render task's op is received: the actor replies with its state and,
\* if completed, waits for the flushed gate (bar.go:304-312)
RenderSend(b) ==
    /\ Alive /\ rpc[b] = "send" /\ bpc[b] = "loop"
    /\ snap' = [snap EXCEPT ![b] = s[b]]
    /\ rpc' = [rpc EXCEPT ![b] = "ready"]
    /\ IF s[b].completed
       THEN /\ bpc' = [bpc EXCEPT ![b] = "flushwait"]
            /\ gate' = [gate EXCEPT ![b] = "open"]
       ELSE UNCHANGED <<bpc, gate>>
    /\ UNCHANGED <<s, quit, done, cacheState, bcancel, quitCloses>>
    /\ UNCHANGED <<clientVars, orchVars, skip, written, envVars, spc, panicked>>
    /\ UNCHANGED drawVars

\* the render task takes the cached state (bar.go:313-314)
RenderDone(b) ==
    /\ Alive /\ rpc[b] = "send" /\ done[b] = "closed"
    /\ snap' = [snap EXCEPT ![b] = cacheState[b]]
    /\ rpc' = [rpc EXCEPT ![b] = "ready"]
    /\ UNCHANGED <<barVars, clientVars, orchVars, skip, written, envVars, spc, panicked>>
    /\ UNCHANGED drawVars

\* a render task without the deferred recover: the decorator's panic ends
\* the process
RenderSendUnrecovered(b) ==
    /\ Alive /\ rpc[b] = "send" /\ bpc[b] = "loop"
    /\ panicked' = "decorator panic"
    /\ UNCHANGED <<barVars, clientVars, orchVars, frameVars, envVars, spc>>
    /\ UNCHANGED drawVars

\* the render task's op is received as in RenderSend, then a decorator
\* panics in draw: the deferred recover sends the fault's text as the row
\* (bar.go:294-300, 316)
RenderSendFault(b) ==
    /\ Alive /\ rpc[b] = "send" /\ bpc[b] = "loop"
    /\ snap' = [snap EXCEPT ![b] = s[b]]
    /\ rpc' = [rpc EXCEPT ![b] = "fault"]
    /\ IF s[b].completed
       THEN /\ bpc' = [bpc EXCEPT ![b] = "flushwait"]
            /\ gate' = [gate EXCEPT ![b] = "open"]
       ELSE UNCHANGED <<bpc, gate>>
    /\ UNCHANGED <<s, quit, done, cacheState, bcancel, quitCloses>>
    /\ UNCHANGED <<clientVars, orchVars, skip, written, envVars, spc, panicked>>
    /\ UNCHANGED drawVars

\* the row a render task has put in its channel: the bar's drawing, or the
\* text of the fault (bar.go:297, 318)
RowOf(b) == [bar |-> b, text |-> IF rpc[b] = "fault" THEN "fault" ELSE "row"]

\* a fan-in that forwards whichever row is ready first
FanInAnyReady ==
    /\ Alive /\ opc = "fanin"
    /\ \E b \in BarIds :
         /\ InSeq(cbars, b) /\ rpc[b] \in {"ready", "fault"}
         /\ rpc' = [rpc EXCEPT ![b] = "none"]
         /\ written' = Append(written, RowOf(b))
    /\ opc' = IF oidx = Len(cbars) THEN "flush" ELSE "fanin"
    /\ oidx' = NextIdx
    /\ UNCHANGED <<obar, cbars, ccancel, tickerStopped, pquit, pdone, pquitCloses, wg>>
    /\ UNCHANGED <<barVars, clientVars, skip, snap, envVars, spc, panicked>>
    /\ UNCHANGED drawVars

\* fanIn takes the next row and the loop writes it (progress.go:298-300,
\* 362-369)
FanIn ==
    /\ Alive /\ opc = "fanin" /\ rpc[cbars[oidx]] \in {"ready", "fault"}
    /\ rpc' = [rpc EXCEPT ![cbars[oidx]] = "none"]
    /\ IF skip > 1
       THEN /\ skip' = skip - 1
            /\ UNCHANGED written
       ELSE /\ written' = Append(written, RowOf(cbars[oidx]))
            /\ UNCHANGED skip
    /\ opc' = IF oidx = Len(cbars) THEN "flush" ELSE "fanin"
    /\ oidx' = NextIdx
    /\ UNCHANGED <<obar, cbars, ccancel, tickerStopped, pquit, pdone, pquitCloses, wg>>
    /\ UNCHANGED <<barVars, clientVars, snap, envVars, spc, panicked>>
    /\ UNCHANGED drawVars

\* a frame that writes but never closes the flushed gate
FlushKeepsGate ==
    /\ Alive /\ opc = "flush"
    /\ opc' = "loop"
    /\ UNCHANGED <<barVars, oidx, obar, cbars, ccancel, tickerStopped, pquit, pdone, pquitCloses, wg>>
    /\ UNCHANGED <<clientVars, frameVars, envVars, spc, panicked>>
    /\ UNCHANGED drawVars

\* conf.cw.Flush() and close(flushed) (progress.go:302-307)
Flush ==
    /\ Alive /\ opc = "flush"
    /\ gate' = [b \in BarIds |-> IF gate[b] = "open" THEN "closed" ELSE gate[b]]
    /\ opc' = "loop"
    /\ UNCHANGED <<s, bpc, quit, done, cacheState, bcancel, quitCloses>>
    /\ UNCHANGED <<oidx, obar, cbars, ccancel, tickerStopped, pquit, pdone, pquitCloses, wg>>
    /\ UNCHANGED <<clientVars, frameVars, envVars, spc, panicked>>
    /\ UNCHANGED drawVars

\* case <-conf.cancel (progress.go:308-310)
OrchCancel ==
    /\ Alive /\ opc = "loop" /\ ccancel /\ cancelCh = "closed"
    /\ tickerStopped' = TRUE
    /\ ccancel' = FALSE
    /\ UNCHANGED <<opc, oidx, obar, cbars, pquit, pdone, pquitCloses, wg>>
    /\ UNCHANGED <<barVars, clientVars, frameVars, envVars, spc, panicked>>
    /\ UNCHANGED drawVars

\* case <-p.quit and the deferred close(p.done) (progress.go:243-248, 311-315)
OrchQuit ==
    /\ Alive /\ opc = "loop" /\ pquit = "closed"
    /\ tickerStopped' = IF ccancel THEN TRUE ELSE tickerStopped
    /\ pdone' = "closed"
    /\ opc' = "exited"
    /\ UNCHANGED <<oidx, obar, cbars, ccancel, pquit, pquitCloses, wg>>
    /\ UNCHANGED <<barVars, clientVars, frameVars, envVars, spc, panicked>>
    /\ UNCHANGED drawVars

\* the AddBar op up to wg.Add: newBar starts the actor, the bar is appended
\* (progress.go:140-144, bar.go:79-102)
AddBarOp(total, id) ==
    /\ Alive /\ opc = "loop" /\ Unborn # {}
    /\ s' = [s EXCEPT ![FreshBar] = newState(id, total)]
    /\ bpc' = [bpc EXCEPT ![FreshBar] = "loop"]
    /\ quit' = [quit EXCEPT ![FreshBar] = "open"]
    /\ done' = [done EXCEPT ![FreshBar] = "open"]
    /\ bcancel' = [bcancel EXCEPT ![FreshBar] = ccancel]
    /\ cbars' = Append(cbars, FreshBar)
    /\ opc' = "addbar_wg"
    /\ UNCHANGED <<cacheState, gate, quitCloses>>
    /\ UNCHANGED <<oidx, obar, ccancel, tickerStopped, pquit, pdone, pquitCloses, wg>>
    /\ UNCHANGED <<clientVars, frameVars, envVars, spc, panicked>>
    /\ UNCHANGED drawVars

\* p.wg.Add(1) and the reply (progress.go:145-146)
AddBarWg ==
    /\ Alive /\ opc = "addbar_wg"
    /\ wg' = wg + 1
    /\ opc' = "loop"
    /\ UNCHANGED <<oidx, obar, cbars, ccancel, tickerStopped, pquit, pdone, pquitCloses>>
    /\ UNCHANGED <<barVars, clientVars, frameVars, envVars, spc, panicked>>
    /\ UNCHANGED drawVars

\* AddBar, case <-p.quit: return new(Bar), whose channels are all nil
\* (progress.go:151-152)
AddBarNoop ==
    /\ Alive /\ pquit = "closed" /\ Unborn # {}
    /\ bpc' = [bpc EXCEPT ![FreshBar] = "noop"]
    /\ UNCHANGED <<s, quit, done, cacheState, bcancel, gate, quitCloses>>
    /\ UNCHANGED <<clientVars, orchVars, frameVars, envVars, spc, panicked>>
    /\ UNCHANGED drawVars

\* what RemoveBar(b) returns, or -1 while its op is still running
Returned(b, v) == [bar |-> b, kind |-> "RemoveBar", val |-> v]

\* the RemoveBar op for a bar of the list, up to close(b.quit)
\* (progress.go:169-185): Complete's select has seen the quit gate open or
\* closed; with the gate closed the bar is removed and true is returned
RemoveBarOp(b) ==
    /\ Alive /\ opc = "loop" /\ HasHandle(b) /\ InSeq(cbars, b)
    /\ ncalls < MaxCalls
    /\ ncalls' = ncalls + 1
    /\ IF CompleteWillClose(b)
       THEN /\ opc' = "remove_close"
            /\ obar' = b
            /\ lastRead' = Returned(b, -1)
            /\ UNCHANGED cbars
       ELSE /\ cbars' = RemoveAt(cbars, IndexOf(cbars, b))
            /\ lastRead' = Returned(b, 1)
            /\ UNCHANGED <<opc, obar>>
    /\ UNCHANGED <<oidx, ccancel, tickerStopped, pquit, pdone, pquitCloses, wg>>
    /\ UNCHANGED <<barVars, cl, called, dropped, frameVars, envVars, spc, panicked>>
    /\ UNCHANGED drawVars

\* bar.Complete()'s close(b.quit), the removal and the result
\* (progress.go:175-180)
RemoveClose ==
    /\ Alive /\ opc = "remove_close"
    /\ opc' = "loop"
    /\ obar' = 0
    /\ IF CloseQuitFault(obar) = ""
       THEN /\ quit' = [quit EXCEPT ![obar] = "closed"]
            /\ quitCloses' = [quitCloses EXCEPT ![obar] = @ + 1]
            /\ cbars' = RemoveAt(cbars, IndexOf(cbars, obar))
            /\ lastRead' = Returned(obar, 1)
            /\ UNCHANGED panicked
       ELSE /\ panicked' = CloseQuitFault(obar)
            /\ UNCHANGED <<quit, quitCloses, cbars, lastRead>>
    /\ UNCHANGED <<s, bpc, done, cacheState, bcancel, gate>>
    /\ UNCHANGED <<oidx, ccancel, tickerStopped, pquit, pdone, pquitCloses, wg>>
    /\ UNCHANGED <<cl, ncalls, called, dropped, frameVars, envVars, spc>>
    /\ UNCHANGED drawVars

\* the RemoveBar op for a bar that is not in the list: the range finds
\* nothing (progress.go:173-182)
RemoveBarAbsent(b) ==
    /\ Alive /\ opc = "loop" /\ HasHandle(b) /\ ~InSeq(cbars, b)
    /\ ncalls < MaxCalls
    /\ ncalls' = ncalls + 1
    /\ lastRead' = Returned(b, 0)
    /\ UNCHANGED <<barVars, cl, called, dropped, orchVars, frameVars, envVars, spc, panicked>>
    /\ UNCHANGED drawVars

\* RemoveBar's case <-p.quit (progress.go:186-187)
RemoveBarQuit(b) ==
    /\ Alive /\ pquit = "closed" /\ HasHandle(b)
    /\ ncalls < MaxCalls
    /\ ncalls' = ncalls + 1
    /\ lastRead' = Returned(b, 0)
    /\ UNCHANGED <<barVars, cl, called, dropped, orchVars, frameVars, envVars, spc, panicked>>
    /\ UNCHANGED drawVars

\* the BarCount op (progress.go:193-199)
BarCountOp ==
    /\ Alive /\ opc = "loop"
    /\ ncalls < MaxCalls
    /\ ncalls' = ncalls + 1
    /\ lastRead' = [bar |-> 0, kind |-> "BarCount", val |-> Len(cbars)]
    /\ UNCHANGED <<barVars, cl, called, dropped, orchVars, frameVars, envVars, spc, panicked>>
    /\ UNCHANGED drawVars

\* BarCount's case <-p.quit (progress.go:200-201)
BarCountQuit ==
    /\ Alive /\ pquit = "closed"
    /\ ncalls < MaxCalls
    /\ ncalls' = ncalls + 1
    /\ lastRead' = [bar |-> 0, kind |-> "BarCount", val |-> 0]
    /\ UNCHANGED <<barVars, cl, called, dropped, orchVars, frameVars, envVars, spc, panicked>>
    /\ UNCHANGED drawVars

\* ------------------------------------------------------------------- Stop
\* Stop up to its send (progress.go:209-217); no external wait-group
StopCall(t) ==
    /\ Alive /\ spc[t] = "idle"
    /\ spc' = [spc EXCEPT ![t] = IF pquit = "closed" THEN "returned" ELSE "send"]
    /\ UNCHANGED <<barVars, clientVars, orchVars, frameVars, envVars, panicked>>
    /\ UNCHANGED drawVars

\* p.ops <- func: the loop receives Stop's op (progress.go:218-222)
StopSend(t) ==
    /\ Alive /\ spc[t] = "send" /\ opc = "loop"
    /\ spc' = [spc EXCEPT ![t] = "wait"]
    /\ opc' = IF cbars = <<>> THEN "loop" ELSE "stop_op"
    /\ oidx' = 1
    /\ UNCHANGED <<obar, cbars, ccancel, tickerStopped, pquit, pdone, pquitCloses, wg>>
    /\ UNCHANGED <<barVars, clientVars, frameVars, envVars, panicked>>
    /\ UNCHANGED drawVars

AfterStopBar == IF oidx = Len(cbars) THEN "loop" ELSE "stop_op"

\* b.complete(): the actor receives the closure and runs it up to Complete's
\* select (bar.go:256-262)
StopOpSend ==
    /\ Alive /\ opc = "stop_op"
    /\ bpc[cbars[oidx]] = "loop"
    /\ bpc' = [bpc EXCEPT ![cbars[oidx]] =
                  IF ~s[cbars[oidx]].completed THEN AfterCompleteSelect(cbars[oidx]) ELSE "loop"]
    /\ opc' = AfterStopBar
    /\ oidx' = NextIdx
    /\ UNCHANGED <<s, quit, done, cacheState, bcancel, gate, quitCloses>>
    /\ UNCHANGED <<obar, cbars, ccancel, tickerStopped, pquit, pdone, pquitCloses, wg>>
    /\ UNCHANGED <<clientVars, frameVars, envVars, spc, panicked>>
    /\ UNCHANGED drawVars

\* b.complete(): case <-time.After(prr) (bar.go:263-264)
StopOpTimeout ==
    /\ Alive /\ opc = "stop_op"
    /\ opc' = AfterStopBar
    /\ oidx' = NextIdx
    /\ UNCHANGED <<obar, cbars, ccancel, tickerStopped, pquit, pdone, pquitCloses, wg>>
    /\ UNCHANGED <<barVars, clientVars, frameVars, envVars, spc, panicked>>
    /\ UNCHANGED drawVars

\* p.wg.Wait() returns, then quitRequest's select (progress.go:224-235)
StopWait(t) ==
    /\ Alive /\ spc[t] = "wait" /\ wg = 0
    /\ spc' = [spc EXCEPT ![t] = IF pquit = "closed" THEN "waitdone" ELSE "closeq"]
    /\ UNCHANGED <<barVars, clientVars, orchVars, frameVars, envVars, panicked>>
    /\ UNCHANGED drawVars

\* quitRequest's close(p.quit) (progress.go:236)
StopCloseQuit(t) ==
    /\ Alive /\ spc[t] = "closeq"
    /\ spc' = [spc EXCEPT ![t] = "waitdone"]
    /\ IF pquit = "closed"
       THEN /\ panicked' = "close of closed channel"
            /\ UNCHANGED <<pquit, pquitCloses>>
       ELSE /\ pquit' = "closed"
            /\ pquitCloses' = pquitCloses + 1
            /\ UNCHANGED panicked
    /\ UNCHANGED <<opc, oidx, obar, cbars, ccancel, tickerStopped, pdone, wg>>
    /\ UNCHANGED <<barVars, clientVars, frameVars, envVars>>
    /\ UNCHANGED drawVars

\* <-p.done, and Stop returns (progress.go:228)
StopDone(t) ==
    /\ Alive /\ spc[t] = "waitdone" /\ pdone = "closed"
    /\ spc' = [spc EXCEPT ![t] = "returned"]
    /\ UNCHANGED <<barVars, clientVars, orchVars, frameVars, envVars, panicked>>
    /\ UNCHANGED drawVars

\* ------------------------------------------------------- the specification
\* the state New leaves (progress.go:103-135) when the cancel channel it is
\* given is ch; armed and stopped are conf.cancel # nil and the ticker stopped
InitNew(ch, armed, stopped) ==
    /\ s = [b \in BarIds |-> NoState]
    /\ bpc = [b \in BarIds |-> "unborn"]
    /\ quit = [b \in BarIds |-> "nil"]
    /\ done = [b \in BarIds |-> "nil"]
    /\ cacheState = [b \in BarIds |-> NoState]
    /\ bcancel = [b \in BarIds |-> FALSE]
    /\ gate = [b \in BarIds |-> "none"]
    /\ quitCloses = [b \in BarIds |-> 0]
    /\ cl = [c \in Clients |-> Idle]
    /\ lastRead = NoRead
    /\ ncalls = 0
    /\ called = [b \in BarIds |-> 0]
    /\ dropped = [b \in BarIds |-> FALSE]
    /\ opc = "loop"
    /\ oidx = 1
    /\ obar = 0
    /\ cbars = <<>>
    /\ cancelCh = ch
    /\ ccancel = armed
    /\ tickerStopped = stopped
    /\ tickPending = FALSE
    /\ nticks = 0
    /\ pquit = "open"
    /\ pdone = "open"
    /\ pquitCloses = 0
    /\ wg = 0
    /\ skip = 0
    /\ rpc = [b \in BarIds |-> "none"]
    /\ snap = [b \in BarIds |-> NoState]
    /\ written = <<>>
    /\ spc = [t \in StopCallers |-> "idle"]
    /\ panicked = ""
    /\ ws = NoSync
    /\ deco = [b \in BarIds |-> NoDeco]
    /\ est = NoEst
    /\ NoPure

Init == \E ch \in {"nil", "open"} : InitNew(ch, ch # "nil", FALSE)

Producer ==
    \/ \E c \in Clients, b \in BarIds, n \in IncrArgs : CallIncr(c, b, n)
    \/ \E c \in Clients : IncrSend(c)
    \/ \E c \in Clients : IncrQuit(c)
    \/ \E c \in Clients, b \in BarIds, k \in ReadKinds : CallRead(c, b, k)
    \/ \E c \in Clients : ReadSend(c)
    \/ \E c \in Clients : ReadDone(c)
    \/ \E c \in Clients, b \in BarIds : CallComplete(c, b)
    \/ \E c \in Clients : CompleteClose(c)
    \/ \E c \in Clients, b \in BarIds : InProgress(c, b)

BarActor ==
    \/ \E b \in BarIds : BarQuit(b)
    \/ \E b \in BarIds : BarCancel(b)
    \/ \E b \in BarIds : BarClose(b)
    \/ \E b \in BarIds : BarFlushed(b)
    \/ \E b \in BarIds : BarDeferCache(b)
    \/ \E b \in BarIds : BarDeferDone(b)
    \/ \E b \in BarIds : BarDeferWg(b)

Orchestrator ==
    \/ OrchTickEmpty
    \/ \E th \in TermRows : OrchTick(th)
    \/ FrameUpdateSend
    \/ FrameUpdateQuit
    \/ \E b \in BarIds : RenderSend(b)
    \/ \E b \in BarIds : RenderDone(b)
    \/ FanIn
    \/ Flush
    \/ OrchCancel
    \/ OrchQuit
    \/ \E total \in Totals, id \in Ids : AddBarOp(total, id)
    \/ AddBarWg
    \/ AddBarNoop
    \/ \E b \in BarIds : RemoveBarOp(b)
    \/ RemoveClose
    \/ \E b \in BarIds : RemoveBarAbsent(b)
    \/ \E b \in BarIds : RemoveBarQuit(b)
    \/ BarCountOp
    \/ BarCountQuit
    \/ \E b \in BarIds : RenderSendFault(b)

Stopper ==
    \/ \E t \in Stoppers : StopCall(t)
    \/ \E t \in Stoppers : StopSend(t)
    \/ StopOpSend
    \/ StopOpTimeout
    \/ \E t \in Stoppers : StopWait(t)
    \/ \E t \in Stoppers : StopCloseQuit(t)
    \/ \E t \in Stoppers : StopDone(t)

Next == Producer \/ BarActor \/ Orchestrator \/ Stopper \/ Tick \/ CloseCancel

Spec == Init /\ [][Next]_vars

\* The state after New and AddBar calls that created the bars of `made`
\* (made[b] is the total given for bar b, in the order 1, 2, ...), with no
\* increment applied yet.
RECURSIVE SeqOfSet(_)
SeqOfSet(S) ==
    IF S = {} THEN <<>>
    ELSE LET m == CHOOSE x \in S : \A y \in S : x >= y
         IN  Append(SeqOfSet(S \ {m}), m)

\* the orchestrator and the bars of made (bar |-> total), as New and AddBar
\* leave them
BarsMade(made) ==
    /\ s = [b \in BarIds |-> IF b \in DOMAIN made THEN newState(0, made[b]) ELSE NoState]
    /\ bpc = [b \in BarIds |-> IF b \in DOMAIN made THEN "loop" ELSE "unborn"]
    /\ quit = [b \in BarIds |-> IF b \in DOMAIN made THEN "open" ELSE "nil"]
    /\ done = [b \in BarIds |-> IF b \in DOMAIN made THEN "open" ELSE "nil"]
    /\ cacheState = [b \in BarIds |-> NoState]
    /\ cancelCh \in {"nil", "open"}
    /\ bcancel = [b \in BarIds |-> b \in DOMAIN made /\ cancelCh # "nil"]
    /\ gate = [b \in BarIds |-> "none"]
    /\ quitCloses = [b \in BarIds |-> 0]
    /\ cl = [c \in Clients |-> Idle]
    /\ lastRead = NoRead
    /\ ncalls = 0
    /\ called = [b \in BarIds |-> 0]
    /\ dropped = [b \in BarIds |-> FALSE]
    /\ opc = "loop"
    /\ oidx = 1
    /\ obar = 0
    /\ cbars = SeqOfSet(DOMAIN made)
    /\ ccancel = (cancelCh # "nil")
    /\ tickerStopped = FALSE
    /\ tickPending = FALSE
    /\ nticks = 0
    /\ pquit = "open"
    /\ pdone = "open"
    /\ pquitCloses = 0
    /\ wg = Cardinality(DOMAIN made)
    /\ skip = 0
    /\ rpc = [b \in BarIds |-> "none"]
    /\ snap = [b \in BarIds |-> NoState]
    /\ written = <<>>
    /\ spc = [t \in StopCallers |-> "idle"]
    /\ panicked = ""

\* no frame is being drawn
NoDrawing ==
    /\ ws = NoSync
    /\ deco = [b \in BarIds |-> NoDeco]
    /\ est = NoEst
    /\ NoPure

InitWithBars(made) == BarsMade(made) /\ NoDrawing

\* one bar, its producers, the frames and the cancel signal
InitBar == \E total \in Totals : InitWithBars([b \in {1} |-> total])
NextBar ==
    \/ Producer
    \/ BarActor
    \/ Tick
    \/ \E th \in TermRows : OrchTick(th)
    \/ FrameUpdateSend
    \/ FrameUpdateQuit
    \/ \E b \in BarIds : RenderSend(b)
    \/ \E b \in BarIds : RenderDone(b)
    \/ FanIn
    \/ Flush
    \/ OrchCancel
    \/ CloseCancel
SpecBar == InitBar /\ [][NextBar]_vars

\* The steps the scheduler owes each task: a task that can go on does go on
\* (weak fairness per task).  A task blocked in a select goes on when one of
\* its cases is ready.
ActorStep(b) ==
    \/ BarQuit(b) \/ BarCancel(b) \/ BarClose(b) \/ BarFlushed(b)
    \/ BarDeferCache(b) \/ BarDeferDone(b) \/ BarDeferWg(b)
CallStep(c) == IncrSend(c) \/ IncrQuit(c) \/ ReadSend(c) \/ ReadDone(c)
RenderStep(b) == RenderSend(b) \/ RenderDone(b)
LoopStep ==
    \/ OrchTickEmpty \/ (\E th \in TermRows : OrchTick(th))
    \/ FrameUpdateSend \/ FrameUpdateQuit \/ FanIn \/ Flush
    \/ OrchCancel \/ OrchQuit \/ AddBarWg \/ RemoveClose
    \/ StopOpSend
StopStep(t) == StopSend(t) \/ StopWait(t) \/ StopCloseQuit(t) \/ StopDone(t)

Fairness ==
    /\ \A b \in BarIds : WF_vars(ActorStep(b))
    /\ \A b \in BarIds : WF_vars(RenderStep(b))
    /\ \A c \in Clients : WF_vars(CallStep(c))
    /\ WF_vars(LoopStep)
    /\ \A t \in Stoppers : WF_vars(StopStep(t))

\* one bar and the calls its producers make on it, under fair scheduling:
\* the bar reaches every stage of its life through Incr, the frames and the
\* cancel signal
LiveIncrArgs == {0, 1}
LiveReadKinds == {"Current"}
NextLive ==
    \/ \E c \in Clients, b \in BarIds, n \in LiveIncrArgs : CallIncr(c, b, n)
    \/ \E c \in Clients : IncrSend(c)
    \/ \E c \in Clients : IncrQuit(c)
    \/ \E c \in Clients, b \in BarIds, k \in LiveReadKinds : CallRead(c, b, k)
    \/ \E c \in Clients : ReadSend(c)
    \/ \E c \in Clients : ReadDone(c)
    \/ BarActor
    \/ Tick
    \/ \E th \in TermRows : OrchTick(th)
    \/ FrameUpdateSend
    \/ FrameUpdateQuit
    \/ \E b \in BarIds : RenderSend(b)
    \/ \E b \in BarIds : RenderDone(b)
    \/ FanIn
    \/ Flush
    \/ OrchCancel
    \/ CloseCancel
SpecLive == InitBar /\ [][NextLive]_vars /\ Fairness


\* Stop against AddBar and the producers' calls, between two ticks and with
\* no cancel signal configured
StopIncrArgs == {1}
StopReadKinds == {"Current"}
InitStop == InitNew("nil", FALSE, FALSE)
NextStop ==
    \/ \E total \in Totals, id \in Ids : AddBarOp(total, id)
    \/ AddBarWg
    \/ AddBarNoop
    \/ \E c \in Clients, b \in BarIds, n \in StopIncrArgs : CallIncr(c, b, n)
    \/ \E c \in Clients : IncrSend(c)
    \/ \E c \in Clients : IncrQuit(c)
    \/ \E c \in Clients, b \in BarIds, k \in StopReadKinds : CallRead(c, b, k)
    \/ \E c \in Clients : ReadSend(c)
    \/ \E c \in Clients : ReadDone(c)
    \/ \E c \in Clients, b \in BarIds : CallComplete(c, b)
    \/ \E c \in Clients : CompleteClose(c)
    \/ \E c \in Clients, b \in BarIds : InProgress(c, b)
    \/ \E b \in BarIds : BarQuit(b)
    \/ \E b \in BarIds : BarClose(b)
    \/ \E b \in BarIds : BarDeferCache(b)
    \/ \E b \in BarIds : BarDeferDone(b)
    \/ \E b \in BarIds : BarDeferWg(b)
    \/ OrchQuit
    \/ Stopper
SpecStop == InitStop /\ [][NextStop]_vars

\* Stop after the cancel signal has been closed and handled by the loop
\* (progress.go:308-310: ticker stopped, conf.cancel = nil), on the bars
\* added since and the increments made on them, under fair scheduling.  Every
\* actor is at its select when Stop's op reaches it, so b.complete() is
\* received before its timeout.
CancelledIncrArgs == {1}
\* AddBar by a task that finishes before Stop is called
AddBarBeforeStop(total, id) ==
    /\ \A t \in Stoppers : spc[t] = "idle"
    /\ AddBarOp(total, id)
InitCancelled == InitNew("closed", FALSE, TRUE)
NextCancelled ==
    \/ \E total \in Totals, id \in Ids : AddBarBeforeStop(total, id)
    \/ AddBarWg
    \/ \E c \in Clients, b \in BarIds, n \in CancelledIncrArgs : CallIncr(c, b, n)
    \/ \E c \in Clients : IncrSend(c)
    \/ \E c \in Clients : IncrQuit(c)
    \/ \E b \in BarIds : BarQuit(b)
    \/ \E b \in BarIds : BarClose(b)
    \/ \E b \in BarIds : BarDeferCache(b)
    \/ \E b \in BarIds : BarDeferDone(b)
    \/ \E b \in BarIds : BarDeferWg(b)
    \/ OrchQuit
    \/ \E t \in Stoppers : StopCall(t)
    \/ \E t \in Stoppers : StopSend(t)
    \/ StopOpSend
    \/ \E t \in Stoppers : StopWait(t)
    \/ \E t \in Stoppers : StopCloseQuit(t)
    \/ \E t \in Stoppers : StopDone(t)
SpecCancelled == InitCancelled /\ [][NextCancelled]_vars /\ Fairness

\* ------------------------------------------------- a width-sync column
\* widths a decorator's text can have
Widths == {1, 2}

\* max (progress.go:375-385), of a non-empty slice
RECURSIVE max(_)
max(slice) ==
    IF Len(slice) = 1 THEN slice[1]
    ELSE LET m == max(Tail(slice)) IN IF slice[1] > m THEN slice[1] ELSE m

\* fmt.Sprintf("%<n>s", name): the text padded to n cells, never cut
PadTo(width, n) == IF n > width THEN n ELSE width

programIdle == UNCHANGED <<barVars, clientVars, orchVars, frameVars, envVars, spc, panicked>>
drawOnly == programIdle /\ UNCHANGED pureVars

\* newWidthSync (progress.go:320-331) for one column of a frame of NumBars
\* bars: the column's goroutine starts with nothing collected; deco[b].sync
\* tells whether b's decorator has DwidthSync set, deco[b].width is the width
\* of its text, ws.extra is 1 when the decorators have DextraSpace set
InitWidth ==
    /\ BarsMade([b \in BarIds |-> 0])
    /\ cancelCh = "nil"
    /\ \E extra \in {0, 1} :
         ws = [pc |-> "collect", Listen |-> <<>>, Result |-> <<>>, widths |-> <<>>,
               sent |-> 0, closed |-> FALSE, timeout |-> FALSE, extra |-> extra]
    /\ deco \in [BarIds -> [pc : {"start"}, sync : BOOLEAN, width : Widths, cell : {0}]]
    /\ est = NoEst
    /\ NoPure

\* myWidth <- runewidth.StringWidth(name) (decorators.go:84); Listen has room
\* for numBars widths (progress.go:326)
DecoSend(b) ==
    /\ deco[b].pc = "start" /\ deco[b].sync
    /\ Len(ws.Listen) < NumBars
    /\ ws' = [ws EXCEPT !.Listen = Append(@, deco[b].width)]
    /\ deco' = [deco EXCEPT ![b].pc = "sent"]
    /\ UNCHANGED est /\ drawOnly

\* max := <-maxWidth, then the padding (decorators.go:85-89): a value of
\* Result if there is one, the zero value once Result is closed and empty
DecoRecv(b) ==
    /\ deco[b].pc = "sent"
    /\ ws.Result # <<>> \/ ws.closed
    /\ LET got == IF ws.Result # <<>> THEN Head(ws.Result) ELSE 0
       IN  deco' = [deco EXCEPT ![b].pc = "done",
                                ![b].cell = PadTo(deco[b].width, got + ws.extra)]
    /\ ws' = [ws EXCEPT !.Result = IF @ # <<>> THEN Tail(@) ELSE @]
    /\ UNCHANGED est /\ drawOnly

\* a decorator without DwidthSync (decorators.go:91): padded to its minWidth,
\* here 0
DecoPlain(b) ==
    /\ deco[b].pc = "start" /\ ~deco[b].sync
    /\ deco' = [deco EXCEPT ![b].pc = "done", ![b].cell = PadTo(deco[b].width, 0)]
    /\ UNCHANGED <<ws, est>> /\ drawOnly

\* case w := <-listenCh (progress.go:336-340)
SyncCollect ==
    /\ ws.pc = "collect" /\ ws.Listen # <<>>
    /\ LET widths == Append(ws.widths, Head(ws.Listen))
       IN  ws' = [ws EXCEPT !.Listen = Tail(@), !.widths = widths,
                            !.pc = IF Len(widths) = NumBars THEN "send" ELSE "collect"]
    /\ UNCHANGED <<deco, est>> /\ drawOnly

\* the frame's deadline: time.AfterFunc closes timeout (progress.go:264-267)
SyncDeadline ==
    /\ ~ws.timeout /\ ws.pc # "none"
    /\ ws' = [ws EXCEPT !.timeout = TRUE]
    /\ UNCHANGED <<deco, est>> /\ drawOnly

\* case <-timeout (progress.go:341-346); the deferred close runs on the return
SyncTimeout ==
    /\ ws.pc = "collect" /\ ws.timeout
    /\ ws' = IF ws.widths = <<>>
             THEN [ws EXCEPT !.pc = "exited", !.closed = TRUE]
             ELSE [ws EXCEPT !.pc = "send"]
    /\ UNCHANGED <<deco, est>> /\ drawOnly

\* resultCh <- result, once for each collected width (progress.go:348-351);
\* Result has room for numBars values (progress.go:327)
SyncResult ==
    /\ ws.pc = "send" /\ ws.sent < Len(ws.widths)
    /\ Len(ws.Result) < NumBars
    /\ ws' = [ws EXCEPT !.Result = Append(@, max(ws.widths)), !.sent = @ + 1]
    /\ UNCHANGED <<deco, est>> /\ drawOnly

\* a collector that returns without closing its result channel
SyncCloseForgotten ==
    /\ ws.pc = "send" /\ ws.sent = Len(ws.widths)
    /\ ws' = [ws EXCEPT !.pc = "exited"]
    /\ UNCHANGED <<deco, est>> /\ drawOnly

\* defer close(resultCh) (progress.go:333), after the last send
SyncClose ==
    /\ ws.pc = "send" /\ ws.sent = Len(ws.widths)
    /\ ws' = [ws EXCEPT !.pc = "exited", !.closed = TRUE]
    /\ UNCHANGED <<deco, est>> /\ drawOnly

NextWidth ==
    \/ \E b \in BarIds : DecoSend(b)
    \/ \E b \in BarIds : DecoRecv(b)
    \/ \E b \in BarIds : DecoPlain(b)
    \/ SyncCollect
    \/ SyncDeadline
    \/ SyncTimeout
    \/ SyncResult
    \/ SyncClose
SpecWidth == InitWidth /\ [][NextWidth]_vars

\* draw returns an empty row at once for a bar whose decorator counts differ
\* from the frame's columns (bar.go:380-382): no decorator of it runs
DecoEmptyRow(b) ==
    /\ deco[b].pc = "start"
    /\ deco' = [deco EXCEPT ![b].pc = "empty"]
    /\ UNCHANGED <<ws, est>> /\ drawOnly

\* a decorator of the bar panics, before the column's decorator has sent its
\* width or between its send and its receive; render's recover ends the task
\* (bar.go:294-300)
DecoFault(b) ==
    /\ deco[b].pc \in {"start", "sent"}
    /\ deco' = [deco EXCEPT ![b].pc = "fault"]
    /\ UNCHANGED <<ws, est>> /\ drawOnly

\* the column with bars that send no width, under fair scheduling: the timer
\* of the deadline fires, the collector and every decorator that can go on
\* do go on; a panic or an empty row is never owed
NextSync ==
    \/ NextWidth
    \/ \E b \in BarIds : DecoEmptyRow(b)
    \/ \E b \in BarIds : DecoFault(b)
SyncFairness ==
    /\ \A b \in BarIds : WF_vars(DecoSend(b) \/ DecoRecv(b) \/ DecoPlain(b))
    /\ WF_vars(SyncCollect \/ SyncTimeout \/ SyncResult \/ SyncClose)
    /\ WF_vars(SyncDeadline)
SpecSync == InitWidth /\ [][NextSync]_vars /\ SyncFairness

\* ------------------------------------------------------------ the frames
\* bars are added with ids and totals of these sets, one producer calls
\* Incr(FrameIncr), and the ticker drives MaxFrames frames; any render may
\* meet a panicking decorator.  No cancel signal, no Stop.
FrameIds == {0, 1}
FrameIncr == 2
InitFrame == InitNew("nil", FALSE, FALSE)
NextFrame ==
    \/ \E total \in Totals, id \in FrameIds : AddBarOp(total, id)
    \/ AddBarWg
    \/ \E b \in BarIds : CallIncr(1, b, FrameIncr)
    \/ IncrSend(1)
    \/ IncrQuit(1)
    \/ \E b \in BarIds : BarQuit(b)
    \/ \E b \in BarIds : BarClose(b)
    \/ \E b \in BarIds : BarFlushed(b)
    \/ \E b \in BarIds : BarDeferCache(b)
    \/ \E b \in BarIds : BarDeferDone(b)
    \/ \E b \in BarIds : BarDeferWg(b)
    \/ Tick
    \/ OrchTickEmpty
    \/ \E th \in TermRows : OrchTick(th)
    \/ FrameUpdateSend
    \/ FrameUpdateQuit
    \/ \E b \in BarIds : RenderSend(b)
    \/ \E b \in BarIds : RenderSendFault(b)
    \/ \E b \in BarIds : RenderDone(b)
    \/ FanIn
    \/ Flush
SpecFrame == InitFrame /\ [][NextFrame]_vars

\* ------------------------------------------------- RemoveBar and BarCount
\* NumBars bars in the list, callers of RemoveBar and BarCount (MaxCalls
\* calls in all), and a Stop; no frames, no producers
RemoveTotal == 2
InitRemove == InitWithBars([b \in BarIds |-> RemoveTotal]) /\ cancelCh = "nil"
NextRemove ==
    \/ \E b \in BarIds : RemoveBarOp(b)
    \/ RemoveClose
    \/ \E b \in BarIds : RemoveBarAbsent(b)
    \/ \E b \in BarIds : RemoveBarQuit(b)
    \/ BarCountOp
    \/ BarCountQuit
    \/ \E b \in BarIds : BarQuit(b)
    \/ \E b \in BarIds : BarClose(b)
    \/ \E b \in BarIds : BarDeferCache(b)
    \/ \E b \in BarIds : BarDeferDone(b)
    \/ \E b \in BarIds : BarDeferWg(b)
    \/ OrchQuit
    \/ Stopper
SpecRemove == InitRemove /\ [][NextRemove]_vars

\* the frames under fair scheduling: every task that can go on does
FrameFairness ==
    /\ \A b \in BarIds :
         WF_vars(BarQuit(b) \/ BarClose(b) \/ BarFlushed(b)
                     \/ BarDeferCache(b) \/ BarDeferDone(b) \/ BarDeferWg(b))
    /\ \A b \in BarIds : WF_vars(RenderSend(b) \/ RenderSendFault(b) \/ RenderDone(b))
    /\ WF_vars(IncrSend(1) \/ IncrQuit(1))
    /\ WF_vars(OrchTickEmpty \/ (\E th \in TermRows : OrchTick(th))
                   \/ FrameUpdateSend \/ FrameUpdateQuit \/ FanIn \/ Flush \/ AddBarWg)
SpecFrameLive == InitFrame /\ [][NextFrame]_vars /\ FrameFairness

\* ----------------------------------------- the ETA and percentage texts
\* a bar's state with the rolling window of its ETA estimator
rollAveSlots == 8
EtaTotals == {-1, 0, 2}
EtaIncrArgs == {0, 1}

\* a variant of updateETA that advances the ring by two slots
updateETATwoSlots(st, amount, rolled) ==
    IF amount = 0 THEN st
    ELSE LET off == IF rolled THEN (st.rollOff + 2) % rollAveSlots ELSE st.rollOff
             slot == IF rolled THEN 0 ELSE st.rollTotal[off]
         IN  [st EXCEPT !.rollOff = off,
                        !.rollTotal = [@ EXCEPT ![off] = AddInt64(slot, amount)]]

\* updateETA (bar.go:345-358); rolled tells whether more than rollAveTime has
\* passed since the current slot was opened
updateETA(st, amount, rolled) ==
    IF amount = 0 THEN st
    ELSE LET off == IF rolled THEN (st.rollOff + 1) % rollAveSlots ELSE st.rollOff
             slot == IF rolled THEN 0 ELSE st.rollTotal[off]
         IN  [st EXCEPT !.rollOff = off,
                        !.rollTotal = [@ EXCEPT ![off] = AddInt64(slot, amount)]]

RECURSIVE SumFrom(_, _, _)
SumFrom(rollTotal, off, k) ==
    IF k = 0 THEN 0
    ELSE rollTotal[off] + SumFrom(rollTotal, (off + 1) % rollAveSlots, k - 1)

\* getDataETA's second result (bar.go:360-377)
getDataETA(st) ==
    LET off == (st.rollOff + 1) % rollAveSlots
    IN  IF st.rollTotal[off] = 0 THEN st.current
        ELSE SumFrom(st.rollTotal, off, rollAveSlots)

\* newStatistics (bar.go:511-526), without the times
newStatistics(st) ==
    [ID |-> st.id, Completed |-> st.completed, Aborted |-> st.aborted,
     Total |-> st.total, Current |-> st.current, RollCurrent |-> getDataETA(st)]

\* the text of an unknown ETA (decorators.go:208), the infinity sign
\* spelled out
Unknown == "inf:??"

\* ETAString (decorators.go:199-224).  The elapsed time and a positive
\* estimate depend on the clock: they are the texts "elapsed" and "estimate";
\* with Total < Current the estimate is negative, under 3 seconds, "~2s".
ETAString(stat) ==
    IF stat.Current = stat.Total THEN "elapsed"
    ELSE IF stat.RollCurrent = 0 THEN Unknown
    ELSE IF stat.Total - stat.Current < 0 THEN "~2s"
    ELSE "estimate"

\* fmt's %2d of a number below 100, as its two characters
Digit(d) == <<"0", "1", "2", "3", "4", "5", "6", "7", "8", "9">>[d + 1]
TwoDigits(pc) == <<IF pc < 10 THEN " " ELSE Digit(pc \div 10), Digit(pc % 10)>>
Blanks == <<" ", " ", " ">>

\* PercentageString (decorators.go:275-283), as the characters of the text:
\* three blanks, or the percentage on two places and a percent sign
PercentageString(stat) ==
    IF stat.Current > 0 /\ stat.Current < stat.Total
    THEN Append(TwoDigits((100 * stat.Current) \div stat.Total), "%")
    ELSE Blanks

\* newBar's state (bar.go:80-83), nothing drawn yet
InitEta ==
    /\ BarsMade([b \in BarIds |-> 0])
    /\ cancelCh = "nil"
    /\ ws = NoSync
    /\ deco = [b \in BarIds |-> NoDeco]
    /\ NoPure
    /\ \E total \in EtaTotals :
         est = newState(0, total) @@
               [pc |-> "new", rollOff |-> 0,
                rollTotal |-> [i \in 0..(rollAveSlots - 1) |-> 0],
                calls |-> 0, eta |-> "", pct |-> <<>>]

\* the closure of Incr(n) applied to the state (bar.go:147-161); updateETA
\* reads and writes the window only, so its place in the closure is free
EtaIncr(n, rolled) ==
    /\ est.pc # "none" /\ est.calls < MaxCalls /\ ~est.completed
    /\ est' = [IncrOp(updateETA(est, n, rolled), n) EXCEPT !.calls = @ + 1, !.pc = "incr"]
    /\ UNCHANGED <<ws, deco>> /\ drawOnly

\* draw takes the statistics of a snapshot and the decorators make their
\* texts of it (bar.go:387, decorators.go:199-224, 275-283)
EtaDraw ==
    /\ est.pc # "none"
    /\ LET stat == newStatistics(est)
       IN  est' = [est EXCEPT !.pc = "drawn",
                              !.eta = ETAString(stat),
                              !.pct = PercentageString(stat)]
    /\ UNCHANGED <<ws, deco>> /\ drawOnly

NextEta ==
    \/ \E n \in EtaIncrArgs, rolled \in BOOLEAN : EtaIncr(n, rolled)
    \/ EtaDraw
SpecEta == InitEta /\ [][NextEta]_vars

\* ------------------------------------------------------------ the spinner
\* frames drawn for one bar, and frames in which draw returns at once
MaxDraws == 6
MaxEmptyRows == 4
SpinTotals == {-1, 0, 2}

\* the glyphs of getSpinner (bar.go:539) and its repeat (bar.go:540)
chars == <<"-", "\\", "|", "/">>
repeat == Len(chars) - 1

\* a spinner that moves two glyphs at a call
spinnerSkips(index) == (index + 2) % Len(chars)

\* the index after a call of the closure getSpinner returns (bar.go:543-546);
\* the glyph returned is number index + 1 of chars, the slice counting from 0
spinnerNext(index) == (IF index = repeat THEN -1 ELSE index) + 1

\* newBar (bar.go:80-87): a bar of total <= 0 gets a spinner, at index repeat
InitSpin ==
    /\ BarsMade([b \in BarIds |-> 0])
    /\ cancelCh = "nil"
    /\ ws = NoSync /\ deco = [b \in BarIds |-> NoDeco] /\ est = NoEst
    /\ fb = NoCall /\ fmtv = NoCall /\ win = NoCall
    /\ \E total \in SpinTotals :
         spin = [pc |-> "new", total |-> total, hasSpinner |-> total <= 0,
                 index |-> repeat, shown |-> <<>>, emptyRows |-> 0]

spinOnly == programIdle /\ UNCHANGED <<ws, deco, est, fb, fmtv, win>>

\* draw for a bar whose decorator counts match the frame's columns
\* (bar.go:423-430): the spinner's glyph between the delimiters, or the
\* filled bar
SpinDraw ==
    /\ spin.pc # "none" /\ Len(spin.shown) < MaxDraws
    /\ spin' = IF spin.hasSpinner
               THEN [spin EXCEPT !.pc = "drawn",
                                 !.index = spinnerNext(spin.index),
                                 !.shown = Append(@, chars[spinnerNext(spin.index) + 1])]
               ELSE [spin EXCEPT !.pc = "drawn", !.shown = Append(@, "bar")]
    /\ spinOnly

\* draw for a bar whose decorator counts differ from the frame's columns
\* (bar.go:380-382): an empty row, the spinner is not called
SpinDrawEmpty ==
    /\ spin.pc # "none" /\ spin.emptyRows < MaxEmptyRows
    /\ spin' = [spin EXCEPT !.pc = "empty", !.emptyRows = @ + 1]
    /\ spinOnly

NextSpin == SpinDraw \/ SpinDrawEmpty
SpecSpin == InitSpin /\ [][NextSpin]_vars

\* ------------------------------------------------ the magnitude formatter
\* byte counts handed to formatKB
FmtInputs == (0..12) \cup {999, 1000, 1250} \cup (9930..10010)
KB == 1000

\* round(f, 0.1) >= 10 (format.go:106-108, 118) for f = n / scale: the
\* integer part of f / 0.1 + 0.5 is at least 100.  When f / 0.1 + 0.5 is a
\* whole number in the reals, the floating-point quotient may fall on either
\* side of it: up tells which.
RoundsToTen(n, scale, up) ==
    LET lhs == 10 * n + (scale \div 2)      \* (f / 0.1 + 0.5) * scale
    IN  IF lhs % scale = 0 /\ ~up
        THEN (lhs \div scale) - 1 >= 100
        ELSE lhs \div scale >= 100

\* fmt's %.1f of n / scale, in tenths: the nearest tenth, a tie going the
\* way of the binary value (up or not)
Tenths(n, scale, up) ==
    LET q == (10 * n) \div scale
        r == (10 * n) % scale
    IN  IF 2 * r > scale \/ (2 * r = scale /\ up) THEN q + 1 ELSE q

\* fmtSprint (format.go:117-122): the integer %3d of int(f), or one decimal
fmtSprint(n, scale, ext, up) ==
    IF RoundsToTen(n, scale, up)
    THEN [kind |-> "int", num |-> n \div scale, ext |-> ext]
    ELSE [kind |-> "dec", num |-> Tenths(n, scale, up), ext |-> ext]

\* formatFKB (format.go:149-166) for values below MB
formatFKB(n, up) ==
    IF n >= KB THEN fmtSprint(n, KB, "KB", up) ELSE fmtSprint(n, 1, "b ", up)

InitFmt ==
    /\ BarsMade([b \in BarIds |-> 0])
    /\ cancelCh = "nil"
    /\ ws = NoSync /\ deco = [b \in BarIds |-> NoDeco] /\ est = NoEst
    /\ spin = NoCall /\ fb = NoCall /\ win = NoCall
    /\ \E n \in FmtInputs : fmtv = [pc |-> "call", n |-> n]

\* formatKB(n) returns its text (format.go:167-169)
FmtReturn ==
    /\ fmtv.pc = "call"
    /\ \E up \in BOOLEAN :
         fmtv' = [pc |-> "done", n |-> fmtv.n, text |-> formatFKB(fmtv.n, up)]
    /\ programIdle /\ UNCHANGED <<ws, deco, est, spin, fb, win>>

NextFmt == FmtReturn
SpecFmt == InitFmt /\ [][NextFmt]_vars

\* ------------------------------------------------ AddBar and the cancel
\* bars are added while the cancel signal may be closed, before or after the
\* loop has handled it; one producer increments the bars.  No frames, no Stop.
AddIncr == 1
InitAdd == Init
NextAdd ==
    \/ CloseCancel
    \/ OrchCancel
    \/ \E total \in Totals, id \in Ids : AddBarOp(total, id)
    \/ AddBarWg
    \/ \E b \in BarIds : CallIncr(1, b, AddIncr)
    \/ IncrSend(1)
    \/ IncrQuit(1)
    \/ \E b \in BarIds : BarCancel(b)
    \/ \E b \in BarIds : BarClose(b)
    \/ \E b \in BarIds : BarQuit(b)
    \/ \E b \in BarIds : BarDeferCache(b)
    \/ \E b \in BarIds : BarDeferDone(b)
    \/ \E b \in BarIds : BarDeferWg(b)
SpecAdd == InitAdd /\ [][NextAdd]_vars

\* ------------------------------------------------------- Stop, repeatedly
\* NumBars bars of total StopTwiceTotal and NumStopCalls callers of Stop, each of
\* which may call while another is inside Stop or after it has returned
StopTwiceTotal == 2
InitStopTwice == InitWithBars([b \in BarIds |-> StopTwiceTotal]) /\ cancelCh = "nil"
NextStopTwice ==
    \/ \E t \in StopCallers : StopCall(t)
    \/ \E t \in StopCallers : StopSend(t)
    \/ StopOpSend
    \/ StopOpTimeout
    \/ \E t \in StopCallers : StopWait(t)
    \/ \E t \in StopCallers : StopCloseQuit(t)
    \/ \E t \in StopCallers : StopDone(t)
    \/ OrchQuit
    \/ \E b \in BarIds : BarQuit(b)
    \/ \E b \in BarIds : BarClose(b)
    \/ \E b \in BarIds : BarDeferCache(b)
    \/ \E b \in BarIds : BarDeferDone(b)
    \/ \E b \in BarIds : BarDeferWg(b)
SpecStopTwice == InitStopTwice /\ [][NextStopTwice]_vars

\* ------------------------------------------------- the ticker at loop exit
\* a container with NumBars bars, without a cancel channel or with an open
\* one that may be closed at any time, and one caller of Stop
TickerTotal == 2
InitTicker ==
    \E ch \in {"nil", "open"} :
        InitWithBars([b \in BarIds |-> TickerTotal]) /\ cancelCh = ch
NextTicker ==
    \/ CloseCancel
    \/ OrchCancel
    \/ OrchQuit
    \/ Stopper
    \/ \E b \in BarIds : BarCancel(b)
    \/ \E b \in BarIds : BarQuit(b)
    \/ \E b \in BarIds : BarClose(b)
    \/ \E b \in BarIds : BarDeferCache(b)
    \/ \E b \in BarIds : BarDeferDone(b)
    \/ \E b \in BarIds : BarDeferWg(b)
SpecTicker == InitTicker /\ [][NextTicker]_vars

\* ------------------------------------------------------ the rolling window
\* The window of one bar under a clock.  The clock counts in ninths of a
\* second doubled, so that rollAveTime (bar.go:43, 2 s) is rollAveTicks ticks;
\* between two calls of Incr one tick, rollAveTime or one tick more passes.
rollAveTicks == 9
ClockSteps == {1, rollAveTicks, rollAveTicks + 1}
MaxWinCalls == 10
WinAmount == 1
\* Go's zero time.Time, long before every reading of the clock
ZeroTime == -1000

\* a variant of the clocked update that leaves the slot's time as it was
updateETAAtKeepsTime(w, amount) ==
    LET rolled == amount # 0 /\ w.now - w.rollTime[w.rollOff] > rollAveTicks
        u == updateETA(w, amount, rolled)
    IN  IF rolled THEN [u EXCEPT !.rolls = @ + 1] ELSE u

\* updateETA at the time w.now (bar.go:345-358): dur is the time since the
\* current slot was opened, the slot that is opened gets the time of the call
updateETAAt(w, amount) ==
    LET rolled == amount # 0 /\ w.now - w.rollTime[w.rollOff] > rollAveTicks
        u == updateETA(w, amount, rolled)
    IN  IF rolled
        THEN [u EXCEPT !.rollTime = [@ EXCEPT ![u.rollOff] = w.now],
                       !.rolls = @ + 1]
        ELSE u

\* the start of the closure of Incr (bar.go:148-152) with initETA
\* (bar.go:341-343); IncrOp sets started
startETA(w) ==
    IF w.current = 0 /\ ~w.started
    THEN [w EXCEPT !.startTime = w.now, !.rollTime = [@ EXCEPT ![0] = w.now]]
    ELSE w

\* the closure of Incr(n) at the time w.now (bar.go:147-161); log keeps the
\* time and the amount of every call that recorded an amount
IncrAt(w, n) ==
    LET u == IncrOp(updateETAAt(startETA(w), n), n)
    IN  [u EXCEPT !.log = IF n = 0 THEN @ ELSE Append(@, [at |-> w.now, amount |-> n])]

\* a bar without a total, not started, its window empty (bar.go:80-83)
InitWin ==
    /\ BarsMade([b \in BarIds |-> 0])
    /\ cancelCh = "nil"
    /\ ws = NoSync
    /\ deco = [b \in BarIds |-> NoDeco]
    /\ est = NoEst
    /\ spin = NoCall /\ fb = NoCall /\ fmtv = NoCall
    /\ win = newState(0, 0) @@
             [pc |-> "new", now |-> 0, calls |-> 0, startTime |-> ZeroTime,
              rollOff |-> 0, rolls |-> 0, log |-> <<>>,
              rollTime |-> [i \in 0..(rollAveSlots - 1) |-> ZeroTime],
              rollTotal |-> [i \in 0..(rollAveSlots - 1) |-> 0]]

winOnly == programIdle /\ UNCHANGED <<ws, deco, est, spin, fb, fmtv>>

\* Update(), that is Incr(0) (bar.go:137-139), with no time passed
WinUpdate ==
    /\ win.pc # "none"
    /\ win' = [IncrAt(win, 0) EXCEPT !.pc = "update"]
    /\ winOnly

\* Incr(WinAmount) after d ticks; the amounts of one slot stay within int64
WinIncr(d) ==
    /\ win.pc # "none" /\ win.calls < MaxWinCalls
    /\ LET w == [win EXCEPT !.now = @ + d]
       IN  /\ (startETA(w).now - startETA(w).rollTime[w.rollOff] <= rollAveTicks)
                  => w.rollTotal[w.rollOff] + WinAmount <= MaxInt64
           /\ win' = [IncrAt(w, WinAmount) EXCEPT !.calls = @ + 1, !.pc = "incr"]
    /\ winOnly

NextWin ==
    \/ WinUpdate
    \/ \E d \in ClockSteps : WinIncr(d)
SpecWin == InitWin /\ [][NextWin]_vars

\* ------------------------------------------------------------ fillBar
\* the arguments of fillBar: widths, totals, fill fractions (the length of
\* fmtFill, 0 without) and refill marks (0 without, else till >= 1)
MaxFillTotal == 4
FillWidths == 2..6
FillTotals == 1..MaxFillTotal
FillCurrents == 0..(MaxFillTotal + 1)
FillLens == {0, 1, 3}
FillTills == 0..(MaxFillTotal + 1)

\* CalcPercentage (decorators.go:318-329) for total > 0, 0 <= current and
\* width >= 0.  num = width * current / total.  With fill fractions the
\* results are int(num) and int(rem / (1 / fill)); when rem * fill is a whole
\* number other than 0 in the reals, the floating-point quotient falls on it
\* or just below it: up tells which.  Without, int(round(num, 1)).
CalcPercentage(total, current, width, fill, up) ==
    IF total = 0 \/ current > total THEN <<0, 0>>
    ELSE LET wc == width * current
         IN  IF fill > 0
             THEN LET r == (wc % total) * fill
                  IN  <<wc \div total,
                        IF r # 0 /\ r % total = 0 /\ ~up
                        THEN (r \div total) - 1 ELSE r \div total>>
             ELSE <<(2 * wc + total) \div (2 * total), 0>>

\* the glyphs of fmtFill[0], fmtFill[1], ... (bar.go:334-337)
FracGlyphs == <<"frac0", "frac1", "frac2">>

\* k cells of glyph g
Cells(k, g) == [i \in 1..k |-> g]

\* fillBar's two loops with a refill mark (bar.go:479-484): till refill
\* glyphs, then fill glyphs from till up to completedWidth
RefillRun(till, completedWidth) ==
    Cells(till, "refill") \o
    (IF till < completedWidth THEN Cells(completedWidth - till, "fill") ELSE <<>>)

\* fillBar (bar.go:449-509), the row as a sequence of glyphs: the runes of
\* format are "left", "fill", "tip", "empty", "right"; fmtFill[k] is
\* FracGlyphs[k + 1]; rf = 0 is a nil refill, else rf is its till
fillBar(total, current, width, flen, rf, up) ==
    IF width < 2 \/ total <= 0 THEN <<>>
    ELSE IF current >= total THEN Cells(width, "empty")
    ELSE LET barWidth == width - 2
             cp == CalcPercentage(total, current, barWidth, flen, up)
             completedWidth == cp[1]
             foff == cp[2]
             till == CalcPercentage(total, rf, barWidth, 0, up)[1]
             run == IF rf # 0 THEN RefillRun(till, completedWidth)
                    ELSE Cells(completedWidth, "fill")
             body == IF flen >= 1
                     THEN IF foff >= 1 THEN Append(run, FracGlyphs[foff])
                          ELSE run
                     ELSE IF completedWidth < barWidth /\ completedWidth > 0
                          THEN Append(SubSeq(run, 1, Len(run) - 1), "tip")
                          ELSE run
             cw == IF flen >= 1 /\ foff >= 1 THEN completedWidth + 1
                   ELSE completedWidth
         IN  <<"left">> \o body \o
             (IF cw < barWidth THEN Cells(barWidth - cw, "empty") ELSE <<>>) \o
             <<"right">>

\* the arguments of one call
InitFill ==
    /\ BarsMade([b \in BarIds |-> 0])
    /\ cancelCh = "nil"
    /\ ws = NoSync
    /\ deco = [b \in BarIds |-> NoDeco]
    /\ est = NoEst
    /\ spin = NoCall /\ fmtv = NoCall /\ win = NoCall
    /\ \E total \in FillTotals, current \in FillCurrents, width \in FillWidths,
          flen \in FillLens, rf \in FillTills :
         fb = [pc |-> "called", total |-> total, current |-> current,
               width |-> width, flen |-> flen, rf |-> rf, row |-> <<>>]

\* the call returns its row
FillReturn(up) ==
    /\ fb.pc = "called"
    /\ fb' = [fb EXCEPT !.pc = "done",
                        !.row = fillBar(fb.total, fb.current, fb.width,
                                        fb.flen, fb.rf, up)]
    /\ programIdle /\ UNCHANGED <<ws, deco, est, spin, fmtv, win>>

NextFill == \E up \in BOOLEAN : FillReturn(up)
SpecFill == InitFill /\ [][NextFill]_vars

\* ------------------------------------------------------------- the claims
Born(b) == bpc[b] \notin {"unborn", "noop"}
Min(a, b) == IF a < b THEN a ELSE b

\* a state in which a determinate bar's current lies within 0..total
CurrentInRange(st) == (st.valid /\ st.total > 0) => (0 <= st.current /\ st.current <= st.total)

\* C1: for every bar with total > 0, the actor's state, every snapshot a
\* render task got, every value Current() returned and the final cached
\* state have 0 <= current <= total, for Incr(n) with any integer n.
C1_CurrentWithinTotal ==
    \A b \in BarIds :
        /\ CurrentInRange(s[b])
        /\ CurrentInRange(snap[b])
        /\ CurrentInRange(cacheState[b])
        /\ (lastRead.bar = b /\ lastRead.kind = "Current" /\ s[b].total > 0)
              => (0 <= lastRead.val /\ lastRead.val <= s[b].total)

\* C2: no increment is lost or applied twice: on a bar whose quit gate is
\* not closed, once every Incr call has returned, current is
\* min(total, sum of the n_i) when total > 0 and the sum when total <= 0.
C2_NoIncrementLost ==
    \A b \in BarIds :
        (/\ Born(b) /\ quit[b] = "open"
         /\ \A c \in Clients : ~(cl[c].pc = "Incr" /\ cl[c].bar = b))
        => s[b].current = IF s[b].total > 0 THEN Min(s[b].total, called[b])
                                            ELSE called[b]

\* a snapshot or cached state that shows completed shows current = total
CompletedAtTotal(st) == (st.valid /\ st.completed /\ st.total > 0) => st.current = st.total

\* C3: in every snapshot and in the final cached state of a bar with
\* total > 0, completed implies current = total, whichever way the bar
\* ended; a bar with total <= 0 is completed only after its quit gate closed.
C3_CompletedMeansTotal ==
    \A b \in BarIds :
        /\ CompletedAtTotal(snap[b])
        /\ CompletedAtTotal(cacheState[b])
        /\ (Born(b) /\ s[b].total <= 0 /\ s[b].completed) => quit[b] = "closed"

\* what the snapshots of b show, once one of them shows completed
ShowsCompleted(b) ==
    \/ (snap[b].valid /\ snap[b].completed)
    \/ (cacheState[b].valid /\ cacheState[b].completed)
ShownCurrent(b) ==
    IF snap[b].valid /\ snap[b].completed THEN snap[b].current ELSE cacheState[b].current

\* C4: once a snapshot of a bar (a render snapshot or the cached final
\* state) shows completed, every later snapshot and every later Current()
\* result shows the same current, whatever Incr calls are issued.
C4_CompletedCurrentFrozen ==
    [][\A b \in BarIds :
        ShowsCompleted(b) =>
          /\ (rpc[b] = "send" /\ rpc'[b] = "ready") => snap'[b].current = ShownCurrent(b)
          /\ (bpc[b] = "defer_cache" /\ bpc'[b] = "defer_done")
                => cacheState'[b].current = ShownCurrent(b)
          /\ \A c \in Clients :
                (cl[c].pc = "Read" /\ cl[c].kind = "Current" /\ cl[c].bar = b
                 /\ cl'[c].pc = "idle")
                => lastRead'.val = ShownCurrent(b)]_vars

\* C6: Complete() is idempotent: over any number of calls by any tasks the
\* quit gate is closed exactly once and no call faults by closing an
\* already-closed gate.
C6_CompleteIdempotent ==
    /\ panicked # "close of closed channel"
    /\ \A b \in BarIds : quitCloses[b] <= 1
    /\ \A b \in BarIds : (quitCloses[b] = 1) = (quit[b] = "closed")

\* C5: every call to a bar operation on a bar created by AddBar eventually
\* returns, whatever the actor's stage at the time of the call (at its
\* select, inside a render op waiting for the flushed gate, quit gate closed
\* but not yet exited, exited), under fair scheduling.
C5_CallsReturn ==
    \A c \in Clients : (cl[c].pc \in {"Incr", "Read"}) ~> (cl[c].pc = "idle")

\* a call is pending while the actor of a completed bar is inside a render
\* op, waiting for the flushed gate
C5_PendingWhileFlushWait ==
    \E c \in Clients :
        /\ cl[c].pc \in {"Incr", "Read"}
        /\ bpc[cl[c].bar] = "flushwait"
        /\ s[cl[c].bar].completed

\* C7: once a call to Stop() has returned, every bar actor has exited (its
\* done gate is closed) and the orchestrator loop, the only writer to the
\* terminal, has exited; the orchestrator's quit gate is closed only after
\* all bar actors have exited.
C7_StopLeavesNothingRunning ==
    /\ \A t \in Stoppers :
           spc[t] = "returned" =>
               /\ \A b \in BarIds : Born(b) => done[b] = "closed"
               /\ opc = "exited"
    /\ pquit = "closed" => \A b \in BarIds : Born(b) => done[b] = "closed"

\* the call that producer c has pending can go on to return
NoopCallCanReturn(c) ==
    ENABLED (IncrSend(c) \/ IncrQuit(c) \/ ReadSend(c) \/ ReadDone(c))

\* C10: the no-op bar that AddBar returns after the orchestrator's quit gate
\* is closed is safe: no method faults (Complete closes no nil gate) and no
\* call on it blocks forever (a pending call can always go on to return).
C10_NoopBarSafe ==
    /\ panicked # "close of nil channel"
    /\ \A c \in Clients :
           (cl[c].pc \in {"Incr", "Read"} /\ bpc[cl[c].bar] = "noop")
               => NoopCallCanReturn(c)

\* C8: after the cancel signal has been handled, a later Stop() still
\* terminates and returns, whatever bars exist at that moment, under fair
\* scheduling.
C8_StopReturnsAfterCancel ==
    \A t \in Stoppers : (spc[t] # "idle") ~> (spc[t] = "returned")

\* C9: when the cancel signal is closed, every bar actor still alive
\* eventually exits with aborted and completed both TRUE in its final cached
\* state, and no receiver (bar actor, orchestrator) reacts to the cancel
\* again once it has dropped it.
C9_CancelAbortsEveryBar ==
    /\ \A b \in BarIds :
           [](  (cancelCh = "closed" /\ bpc[b] \in {"loop", "flushwait", "closing"})
                => <>(/\ done[b] = "closed"
                      /\ cacheState[b].aborted
                      /\ cacheState[b].completed))
    /\ [][\A b \in BarIds : (Born(b) /\ ~bcancel[b]) => ~bcancel'[b]]_vars
    /\ [][~ccancel => ~ccancel']_vars

\* a bar in a terminal state: completed, aborted, or its quit gate closed
Terminal(b) == Born(b) /\ (s[b].completed \/ s[b].aborted \/ quit[b] = "closed")

\* C11: completed and aborted are terminal: once a bar's state is completed
\* or aborted, or its quit gate is closed, no later mutation operation
\* (Incr, Update) changes current or started; the operation is dropped.
C11_TerminalStateFrozen ==
    [][\A b \in BarIds :
          Terminal(b) => /\ s'[b].current = s[b].current
                         /\ s'[b].started = s[b].started]_vars

\* C12: a read served after the actor has exited returns the value of the
\* actor's final state: whenever the done gate is closed the cache holds the
\* final state, and every read or render snapshot that completes returns
\* the value the state has at that moment.
C12_ReadsSeeFinalState ==
    /\ [](\A b \in BarIds : done[b] = "closed" => cacheState[b] = s[b])
    /\ [][\A c \in Clients :
            (cl[c].pc = "Read" /\ cl'[c].pc = "idle")
                => lastRead'.val = ReadField(s[cl[c].bar], cl[c].kind)]_vars
    /\ [][\A b \in BarIds :
            (rpc[b] = "send" /\ rpc'[b] = "ready") => snap'[b] = s[b]]_vars

\* a Current() call is pending on a bar whose actor has exited after its
\* increments, so that only the done path can serve it
C12_ReadAfterExit ==
    \E c \in Clients :
        /\ cl[c] = [pc |-> "Read", bar |-> 1, kind |-> "Current", arg |-> 0]
        /\ bpc[1] = "exited"
        /\ cacheState[1].current > 0

\* C13: a bar stays pending (started = FALSE) until the first Incr with
\* n > 0 is applied: started becomes TRUE only in a step in which the actor
\* applies a producer's Incr(n) with n > 0; Incr(0) and Update(), the
\* orchestrator's per-tick Update() included, leave it unchanged.
C13_PendingUntilPositiveIncr ==
    [][\A b \in BarIds :
          (Born(b) /\ ~s[b].started /\ s'[b].started)
              => \E c \in Clients :
                    /\ cl[c].pc = "Incr" /\ cl[c].bar = b /\ cl[c].arg > 0
                    /\ cl'[c] = Idle]_vars

\* C14: in a frame, the bars whose decorator has DwidthSync set pad their cell
\* of the column to one and the same width, at least each one's own width,
\* also when the deadline fires early and when some bars do not take part.
Padded(b) == deco[b].pc = "done" /\ deco[b].sync
C14_SyncedCellsSameWidth ==
    \A a \in BarIds, b \in BarIds :
        (Padded(a) /\ Padded(b))
            => /\ deco[a].cell = deco[b].cell
               /\ deco[a].cell >= deco[a].width

\* C15: the rows of a frame are written in the order of the sorted bars list,
\* at most one row per bar, whatever the order in which the render tasks
\* finish, and all of them before the flush: a row is only written by the
\* fan-in, and the flush starts when no render task has a row left.
InBarOrder(rows) ==
    \A i \in 1..Len(rows), j \in 1..Len(rows) :
        i < j => IndexOf(cbars, rows[i].bar) < IndexOf(cbars, rows[j].bar)
C15_RowsInBarOrder ==
    /\ [](InBarOrder(written) /\ \A i \in 1..Len(written) : InSeq(cbars, written[i].bar))
    /\ [](opc = "flush" => \A b \in BarIds : rpc[b] = "none")
    /\ [][written' # written => (opc = "fanin" \/ (opc = "loop" /\ written' = <<>>))]_vars
C15_LaterRowReadyFirst ==
    /\ opc = "fanin" /\ Len(cbars) = 2 /\ oidx = 1
    /\ rpc[cbars[1]] = "send" /\ rpc[cbars[2]] = "ready"

\* C16: when the frame has more bars than visible rows (terminal rows minus
\* 3), exactly the last visible rows are written: the first skip rows in bar
\* order are dropped and every later one is written; otherwise all rows are.
RowBars == [i \in 1..Len(written) |-> written[i].bar]
C16_LastVisibleRowsWritten ==
    opc = "flush" => RowBars = SubSeq(cbars, skip + 1, Len(cbars))

\* C17: after the default pre-render sort the bars are in ascending id order,
\* among bars of equal id every finished bar (current = total) precedes every
\* unfinished one, bars equal in both keep their relative order, and the
\* result is a permutation of the list before.
Finished(b) == View(b).current = View(b).total
SameKey(a, b) == View(a).id = View(b).id /\ (Finished(a) <=> Finished(b))
IsSorted(bs) ==
    \A i \in 1..Len(bs), j \in 1..Len(bs) :
        i < j => /\ View(bs[i]).id <= View(bs[j]).id
                 /\ View(bs[i]).id = View(bs[j]).id
                        => ~(~Finished(bs[i]) /\ Finished(bs[j]))
IsPermutation(as, bs) ==
    /\ Len(as) = Len(bs)
    /\ \A b \in BarIds :
         Cardinality({i \in 1..Len(as) : as[i] = b})
             = Cardinality({i \in 1..Len(bs) : bs[i] = b})
KeepsOrder(as, bs) ==
    \A i \in 1..Len(as), j \in 1..Len(as) :
        (i < j /\ SameKey(as[i], as[j])) => IndexOf(bs, as[i]) < IndexOf(bs, as[j])
RemoveReturns(b, v) ==
    /\ lastRead' = Returned(b, v)
    /\ ncalls' = ncalls + 1 \/ opc = "remove_close"
BarCountReturns == lastRead'.kind = "BarCount" /\ ncalls' = ncalls + 1
C18_RemoveBarResult ==
    /\ [][\A b \in BarIds :
            RemoveReturns(b, 1)
                => /\ InSeq(cbars, b) /\ pquit # "closed"
                   /\ cbars' = RemoveAt(cbars, IndexOf(cbars, b))
                   /\ quit'[b] = "closed"]_vars
    /\ [][\A b \in BarIds :
            RemoveReturns(b, 0)
                => /\ ~InSeq(cbars, b) \/ pquit = "closed"
                   /\ cbars' = cbars]_vars
    /\ [][(opc = "remove_close" /\ opc' # "remove_close") => RemoveReturns(obar, 1)]_vars
    /\ [][BarCountReturns
            => lastRead'.val = IF pquit = "closed" THEN 0 ELSE Len(cbars)]_vars

\* C19: when a decorator of one bar panics during a frame, that bar's render
\* still delivers one row, the text of the fault; the other bars' rows are
\* their normal rendering; the process does not fault, the frame is written
\* and flushed and the loop is back at its select for later ticks.
FaultRow == \E b \in BarIds : rpc[b] = "fault"
InFrame == opc \in {"frame", "fanin", "flush"}
C19_DecoratorFaultContained ==
    /\ [][(opc = "fanin" /\ written' # written)
            => written' = Append(written,
                                 [bar |-> cbars[oidx],
                                  text |-> IF rpc[cbars[oidx]] = "fault"
                                           THEN "fault" ELSE "row"])]_vars
    /\ []Alive
    /\ (InFrame ~> (opc = "loop" /\ ~FaultRow))
    /\ (FaultRow ~> (opc = "loop" /\ ~FaultRow))
C19_FaultAndNormalRowWritten ==
    /\ opc = "flush" /\ Len(written) = 2
    /\ written[1].text = "fault" /\ written[2].text = "row"

\* C20: for a bar with total <= 0 the ETA text is the unknown one in every snapshot
\* taken before the bar completes, whatever its current, and the percentage
\* text is three blanks.
C20_NoTotalNoEstimate ==
    (est.pc = "drawn" /\ est.total <= 0 /\ ~est.completed)
        => /\ est.eta = Unknown
           /\ est.pct = Blanks

\* C21: for an indeterminate bar (total <= 0) the k-th frame drawn with
\* matching decorator counts shows glyph number (k - 1) mod 4 of - \ | /, one
\* step per frame: five frames from the first show - \ | / -.
C21_SpinnerCycles ==
    (spin.pc # "none" /\ spin.total <= 0)
        => \A k \in 1..Len(spin.shown) : spin.shown[k] = chars[((k - 1) % 4) + 1]
C21_FiveFramesShown ==
    /\ spin.pc = "drawn" /\ spin.total <= 0 /\ spin.emptyRows > 0
    /\ Len(spin.shown) >= 5
    /\ SubSeq(spin.shown, 1, 5) = <<"-", "\\", "|", "/", "-">>

\* C22: a scaled value x with 9.95 <= x < 10 (whose rounding to one decimal
\* is 10.0) is printed as the integer 10 followed by the unit suffix.
C22_NearTenPrintsTen ==
    (fmtv.pc = "done" /\ fmtv.n >= 9950 /\ fmtv.n < 10000)
        => fmtv.text = [kind |-> "int", num |-> 10, ext |-> "KB"]

\* C23: without Complete, RemoveBar, cancel or Stop, the quit gate of a bar
\* that reached its total through Incr is closed only after a frame whose
\* snapshot of the bar showed completed has been written and flushed; while
\* the actor waits for that frame's flushed gate it applies no operation.
QuitCloses(b) == quit[b] # "closed" /\ quit'[b] = "closed"
C23_QuitAfterCompletedFrame ==
    /\ [][\A b \in BarIds :
            QuitCloses(b)
                => /\ snap[b].completed /\ snap[b] = s[b]
                   /\ s[b].total > 0
                   /\ ~InFrame /\ nticks > 0
                   /\ \A c \in BarIds : rpc[c] = "none"]_vars
    /\ [][\A b \in BarIds :
            (bpc[b] = "flushwait" /\ bpc'[b] # "flushwait")
                => gate[b] = "closed" /\ ~InFrame]_vars
    /\ [][\A b \in BarIds : bpc[b] = "flushwait" => s'[b] = s[b]]_vars
C23_QuitClosedAfterFrame ==
    \E b \in BarIds :
        /\ quit[b] = "closed" /\ bpc[b] = "loop"
        /\ s[b].completed /\ snap[b].completed
        /\ \E i \in 1..Len(written) : written[i] = [bar |-> b, text |-> "row"]

\* C24: the collector of a width-sync column finishes its round when all
\* numBars widths have arrived or when the frame's deadline fires, never
\* blocks while publishing results, and closes its result channel: no
\* decorator stays blocked, also when some bars send no width (no DwidthSync,
\* a panic, an empty row), so every render task of the frame ends.
DecoEnded(b) == deco[b].pc \in {"done", "fault", "empty"}
RoundOver == ws.pc = "exited" /\ ws.closed /\ \A b \in BarIds : DecoEnded(b)
C24_FrameNeverStalls ==
    /\ []((ws.pc = "send" /\ ws.sent < Len(ws.widths)) => Len(ws.Result) < NumBars)
    /\ [](\A b \in BarIds : deco[b].pc = "start" => Len(ws.Listen) < NumBars)
    /\ [](ws.pc = "exited" => ws.closed)
    /\ [][(ws.pc = "collect" /\ ws'.pc # "collect")
            => (ws.timeout \/ Len(ws'.widths) = NumBars)]_vars
    /\ <>[]RoundOver
C24_DeadlineEndsRound ==
    /\ RoundOver /\ ws.timeout /\ Len(ws.widths) < NumBars
    /\ \E a \in BarIds, b \in BarIds :
         /\ deco[a].pc = "fault"
         /\ deco[b].pc = "done" /\ deco[b].sync

\* C25: the wait-group counter of the bar actors never becomes negative: an
\* actor's wg.Done comes after the wg.Add(1) of its AddBar, also when the
\* cancel signal is already closed when the bar is added.
C25_WaitGroupNeverNegative == wg >= 0 /\ panicked # "negative WaitGroup counter"

\* C26: when Stop is called more than once, one call after or during the
\* other, no call faults, the orchestrator's quit gate is closed exactly
\* once, and no call is left sending on the inbox of a loop that has exited
\* (so every call can return).
C26_RepeatedStopSafe ==
    /\ panicked = ""
    /\ pquitCloses <= 1
    /\ \A t \in StopCallers : ~(spc[t] = "send" /\ opc = "exited")

\* C27: once the orchestrator loop has exited its ticker has been stopped,
\* whether no cancel channel was configured, one was configured and never
\* closed, or it was closed before the quit; and once the loop has handled
\* the cancel signal (conf.cancel set back to nil) the ticker is stopped.
C27_TickerStoppedAtExit ==
    /\ opc = "exited" => tickerStopped
    /\ (cancelCh # "nil" /\ ~ccancel) => tickerStopped

\* the amounts of the log no older than span ticks
RECURSIVE LogSum(_, _, _)
LogSum(log, now, span) ==
    IF log = <<>> THEN 0
    ELSE (IF now - Head(log).at <= span THEN Head(log).amount ELSE 0)
         + LogSum(Tail(log), now, span)
WinSum == SumFrom(win.rollTotal, 0, rollAveSlots)
WinSpan == rollAveSlots * rollAveTicks

\* the window never holds more than was recorded, and its sum goes down only
\* when a slot is opened again after the ring has gone round
WinBounded ==
    /\ [](win.pc # "none" => WinSum <= LogSum(win.log, win.now, win.now))
    /\ [][(win.pc # "none" /\ WinSum' < WinSum)
            => /\ win'.rollOff = (win.rollOff + 1) % rollAveSlots
               /\ win'.rolls >= rollAveSlots
               /\ win.rollTotal[win'.rollOff] > 0]_vars

\* C28 as stated: at every state of a started bar the sum of the 8 slot
\* totals includes every amount recorded within the last 8 slot durations
\* (16 s) and never exceeds all that was recorded; amounts leave the sum only
\* when their slot is reused after the ring went through all 8 slots.
C28_WindowCoversSixteenSeconds ==
    /\ []((win.pc # "none" /\ win.started)
            => WinSum >= LogSum(win.log, win.now, WinSpan - 1))
    /\ WinBounded

\* C28, amended: the sum includes every amount recorded within the last 7
\* slot durations (14 s); an amount between 7 and 8 slot durations old may
\* already have left it.  The rest as stated.
C28_WindowCoversSevenSlots ==
    /\ []((win.pc # "none" /\ win.started)
            => WinSum >= LogSum(win.log, win.now, WinSpan - rollAveTicks))
    /\ WinBounded

\* the ring has gone round and an amount less than 8 slot durations old has
\* left the sum, while the amounts of the last 7 slot durations are all in it
C28_AmountAgedOut ==
    /\ win.pc = "incr" /\ win.started /\ win.rolls >= rollAveSlots
    /\ WinSum < LogSum(win.log, win.now, WinSpan - 1)
    /\ WinSum >= LogSum(win.log, win.now, WinSpan - rollAveTicks)
    /\ LogSum(win.log, win.now, WinSpan - rollAveTicks) > 0

\* C29 as stated: whenever started is true, startTime is set and slot 0's
\* time equals startTime, in every reachable state, also after the window
\* has advanced through all 8 slots and come back to slot 0.
C29_SlotZeroIsStartTime ==
    (win.pc # "none" /\ win.started)
        => (win.startTime # ZeroTime /\ win.rollTime[0] = win.startTime)

\* C29, amended: whenever started is true, startTime is set; slot 0's time
\* equals startTime as long as the window has not come back to slot 0, and
\* from then on it is the time at which slot 0 was last opened again, later
\* than startTime.
C29_SlotZeroUntilWrap ==
    (win.pc # "none" /\ win.started)
        => /\ win.startTime # ZeroTime
           /\ win.rolls < rollAveSlots => win.rollTime[0] = win.startTime
           /\ win.rolls >= rollAveSlots
                => (win.rollTime[0] > win.startTime /\ win.rollTime[0] <= win.now)

\* the window has come back to slot 0
C29_WrappedToSlotZero ==
    win.pc = "incr" /\ win.started /\ win.rolls = rollAveSlots /\ win.rollOff = 0

\* the cells of the row that hold glyph g
CellsOf(row, g) == {i \in 1..Len(row) : row[i] = g}

\* C30: for width >= 2, total > 0, current >= 0, with or without fill
\* fractions and with or without a refill mark, fillBar returns exactly width
\* cells: width empty glyphs when current >= total, else the left delimiter,
\* width - 2 body cells and the right delimiter, and the refill glyph lies
\* only in cells of the completed run, which is no longer than the completed
\* width CalcPercentage gives (one more with a fraction glyph).
C30_RowHasWidthCells ==
    fb.pc = "done" =>
        /\ Len(fb.row) = fb.width
        /\ fb.current >= fb.total => fb.row = Cells(fb.width, "empty")
        /\ fb.current < fb.total =>
             /\ fb.row[1] = "left" /\ fb.row[Len(fb.row)] = "right"
             /\ \A i \in 2..(Len(fb.row) - 1) : fb.row[i] \notin {"left", "right"}
             /\ LET cp == CalcPercentage(fb.total, fb.current, fb.width - 2, fb.flen, TRUE)
                IN  \A i \in CellsOf(fb.row, "refill") : i - 1 <= cp[1]

====
